---- MODULE Spec2Model ----
(***************************************************************************)
(* compas_viewer.scene.buffermanager.BufferManager as a state machine.     *)
(*                                                                         *)
(* Floats are carried in tenths (alpha 1.0 is 10, opacity 0.5 is 5).       *)
(* A position is the triple <<x, y, z>>, a colour the RGBA 4-tuple whose   *)
(* last component is alpha; the combined arrays are the flattened float    *)
(* sequences numpy builds, so their lengths are counted in floats.         *)
(***************************************************************************)
EXTENDS Integers, Sequences, FiniteSets, TLC

\* ------------------------------------------------------------------ bounds
MaxObjects == 2
MaxCalls == 2
MaxCreates == 1
MaxBuilds == 2
MaxFrames == 2
MaxTicks == 3

\* --------------------------------------------------------- program constants
PositionFloats == 3
ColorFloats == 4
TransformBytes == 64
SettingsBytes == 48
GhostOpacity == 7
NoneArg == -1

BucketOrder == <<"_points_data", "_lines_data", "_frontfaces_data", "_backfaces_data">>
Buckets == {BucketOrder[i] : i \in 1..Len(BucketOrder)}
IsFaceBucket(b) == b = "_frontfaces_data" \/ b = "_backfaces_data"
FaceBuckets == {b \in Buckets : IsFaceBucket(b)}
TransparentKey(b) == IF b = "_frontfaces_data" THEN "_frontfaces_data_transparent"
                     ELSE "_backfaces_data_transparent"
ElementKeys == Buckets \cup {TransparentKey(b) : b \in FaceBuckets}

Objs == 1..MaxObjects
\* the scene tree is one level deeper than the objects of a bounded run: a
\* grandparent, a parent, a child, ...
TreeObjs == 1..(MaxObjects + 1)

VARIABLES
    positions,              \* self.positions[buffer_type]: flat float32 array
    colors,                 \* self.colors[buffer_type]: flat float32 array
    elements,               \* self.elements[key]: int32 array (opaque list for faces)
    object_indices,         \* self.object_indices[buffer_type]
    objects,                \* self.objects: dict obj -> slot, in insertion order
    buffer_ids,             \* self.buffer_ids[buffer_type]: dict name -> GL buffer name
    transforms,             \* self.transforms
    settings,               \* self.settings
    object_settings_cache,  \* self.object_settings_cache: dict obj -> record
    transform_texture,      \* self.transform_texture (0: attribute absent)
    settings_texture,       \* self.settings_texture (0: attribute absent)
    gl_objects,             \* GL names handed out so far: kind and glDelete* count
    opacity,                \* obj.opacity of every scene object
    transformation,         \* obj.transformation of every scene object
    last_call,              \* the handler that ran last, and its object
    raised,                 \* the exception that handler let escape ("" if none)
    writes,                 \* the texture and buffer uploads that handler issued
    releases,               \* the GL names that handler passed to glDelete*
    draw_log,               \* the shader and GL calls that handler issued
    draw_args,              \* the rendermode and is_instance draw was called with
    printed,                \* the warnings that handler printed
    calls,                  \* history: add_object calls since construction or clear()
    added,                  \* history: the objects and data of those calls, in order
    supplied,               \* history: face indices handed to each face bucket
    built,                  \* history: the build recorded by the last create_buffers
    prev_built,             \* history: the build that the last clear() tore down
    streak,                 \* history: update_object_settings calls in a row, same object
    storage,                \* history: what each GL name holds on the GPU, after its uploads
    config,                 \* viewer.render_config, which is render.config
    render_rendermode,      \* render._rendermode
    render_opacity,         \* render._opacity
    frame_count,            \* viewer.frame_count
    timer,                  \* viewer.timer: made or not, single shot or not, still active or not
    on_call,                \* the last call of viewer.on: its arguments, and whether it raised
    trace,                  \* history: the calls the timer callback made, in order
    running,                \* viewer.running
    scene,                  \* the objects of the scene, in the order they were added
    handler,                \* the ViewerScene call in progress, or the last one
    todo                    \* the buffer manager calls that call has still to make

bucketVars == <<positions, colors, elements, object_indices>>
tableVars == <<objects, transforms, settings, object_settings_cache>>
gpuVars == <<buffer_ids, transform_texture, settings_texture, gl_objects>>
objVars == <<opacity, transformation>>
callVars == <<last_call, raised, writes, releases, draw_log, draw_args, printed>>
histVars == <<calls, added, supplied, built, prev_built, streak, storage>>
renderVars == <<config, render_rendermode, render_opacity>>
timerVars == <<frame_count, timer, on_call, trace>>
sceneVars == <<running, scene, handler, todo>>
viewerVars == <<renderVars, timerVars, sceneVars>>
vars == <<bucketVars, tableVars, gpuVars, objVars, callVars, histVars, viewerVars>>

\* ------------------------------------------------------------ value domains
Opacities == {5, 10}
NoTransformation == "None"
Identity == <<1, 0, 0, 0, 0, 1, 0, 0, 0, 0, 1, 0, 0, 0, 0, 1>>
Translated == <<1, 0, 0, 1, 0, 1, 0, 0, 0, 0, 1, 0, 0, 0, 0, 1>>
Transformations == {NoTransformation, "T"}

EmptyDict == <<>>
NoData == [has |-> FALSE, positions |-> <<>>, colors |-> <<>>, elements |-> <<>>]
Data(p, c, e) == [has |-> TRUE, positions |-> p, colors |-> c, elements |-> e]

\* ------------------------------------------------------------ dict helpers
\* self.objects is a dict: a sequence of <<key, value>> in insertion order.
HasKey(dict, k) == \E i \in 1..Len(dict) : dict[i][1] = k
Get(dict, k) == dict[CHOOSE i \in 1..Len(dict) : dict[i][1] = k][2]
Put(dict, k, v) ==
    IF HasKey(dict, k)
    THEN [i \in 1..Len(dict) |-> IF dict[i][1] = k THEN <<k, v>> ELSE dict[i]]
    ELSE Append(dict, <<k, v>>)
Keys(dict) == [i \in 1..Len(dict) |-> dict[i][1]]

\* np.array(...).flatten() of a list of equally long tuples
RECURSIVE Flatten(_)
Flatten(s) == IF s = <<>> THEN <<>> ELSE Head(s) \o Flatten(Tail(s))

\* np.full(n, v)
Full(n, v) == [i \in 1..n |-> v]

\* ------------------------------------------------------- _add_buffer_data
\* lines 109-117: colours truncated to, or padded with the last colour up to,
\* the number of positions. colors[-1] of an empty list raises IndexError.
RepairRaises(pos, cols) == Len(cols) < Len(pos) /\ Len(cols) = 0

\* the padding branch left out
RepairColorsNoPad(pos, cols) ==
    IF Len(cols) > Len(pos) THEN SubSeq(cols, 1, Len(pos)) ELSE cols

RepairColors(pos, cols) ==
    IF Len(cols) > Len(pos) THEN SubSeq(cols, 1, Len(pos))
    ELSE IF Len(cols) < Len(pos)
         THEN cols \o Full(Len(pos) - Len(cols), cols[Len(cols)])
         ELSE cols

\* lines 128-130: an index at or beyond the colour list is skipped
InRange(e, cols) == e < Len(cols)

\* the object's opacity of line 134 left out
IsTransparentByAlpha(color, obj_opacity) == color[4] < 10

\* lines 132-134: alpha of the vertex colour, or the object's opacity, below 1.0
IsTransparent(color, obj_opacity) == color[4] < 10 \/ obj_opacity < 10

\* the else of line 136 left out: every in-range index also goes to the opaque list
OpaqueElementsNoElse(elem_array, cols, obj_opacity) ==
    SelectSeq(elem_array, LAMBDA e : InRange(e, cols))

\* lines 127-137: the face indices kept for the opaque list
OpaqueElements(elem_array, cols, obj_opacity) ==
    SelectSeq(elem_array,
              LAMBDA e : InRange(e, cols) /\ ~IsTransparent(cols[e + 1], obj_opacity))

\* lines 127-137: the face indices kept for the transparent list
TransparentElements(elem_array, cols, obj_opacity) ==
    SelectSeq(elem_array,
              LAMBDA e : InRange(e, cols) /\ IsTransparent(cols[e + 1], obj_opacity))

\* the division by the floats per position left out
StartIdxInFloats(bucket_positions) == Len(bucket_positions)

\* line 140: number of vertices the bucket holds before the insertion
StartIdx(bucket_positions) == Len(bucket_positions) \div PositionFloats

\* lines 141, 155-156: elem_array += start_idx
Offset(elem_array, start_idx) == [i \in 1..Len(elem_array) |-> elem_array[i] + start_idx]

\* the new object indices put in front of the bucket's
PrependIndices(bucket_indices, obj_indices) == obj_indices \o bucket_indices

\* line 150: np.append(self.object_indices[buffer_type], obj_indices)
AppendIndices(bucket_indices, obj_indices) == bucket_indices \o obj_indices

\* The four combined CPU arrays, as one record m.
\* _add_buffer_data(obj, buffer_type) for data g = (positions, colors, elements),
\* the object's opacity and object_index = len(self.transforms).
AddBufferData(m, b, g, obj_opacity, object_index) ==
    LET cols == RepairColors(g.positions, g.colors)
        pos_array == Flatten(g.positions)
        col_array == Flatten(cols)
        elem_array == Flatten(g.elements)
        start_idx == StartIdx(m.positions[b])
        obj_indices == Full(Len(g.positions), object_index)
        base == [m EXCEPT !.positions[b] = @ \o pos_array,
                          !.colors[b] = @ \o col_array,
                          !.object_indices[b] = AppendIndices(@, obj_indices)]
    IN  IF IsFaceBucket(b)
        THEN [base EXCEPT
                !.elements[b] =
                    @ \o Offset(OpaqueElements(elem_array, cols, obj_opacity), start_idx),
                !.elements[TransparentKey(b)] =
                    @ \o Offset(TransparentElements(elem_array, cols, obj_opacity), start_idx)]
        ELSE [base EXCEPT !.elements[b] = @ \o Offset(elem_array, start_idx)]

\* add_object lines 78-80: the buckets in order, until one raises.
\* Returns the arrays, the buckets ingested and whether an exception escaped.
RECURSIVE IngestBuckets(_, _, _, _, _, _)
IngestBuckets(m, done, d, obj_opacity, object_index, i) ==
    IF i > Len(BucketOrder) THEN [m |-> m, done |-> done, raised |-> FALSE]
    ELSE LET b == BucketOrder[i] IN
         IF ~d[b].has
         THEN IngestBuckets(m, done, d, obj_opacity, object_index, i + 1)
         ELSE IF RepairRaises(d[b].positions, d[b].colors)
         THEN [m |-> m, done |-> done, raised |-> TRUE]
         ELSE IngestBuckets(AddBufferData(m, b, d[b], obj_opacity, object_index),
                            done \cup {b}, d, obj_opacity, object_index, i + 1)

\* lines 109-116: the warning printed for a bucket whose colour list is longer
\* or shorter than its position list
Warning(b, pos, cols) ==
    IF Len(cols) > Len(pos) THEN <<<<b, "greater">>>>
    ELSE IF Len(cols) < Len(pos) THEN <<<<b, "less">>>>
    ELSE <<>>

\* add_object lines 78-80: the warnings of the buckets in order, the bucket that
\* raises at line 117 included
RECURSIVE Warnings(_, _)
Warnings(d, i) ==
    IF i > Len(BucketOrder) THEN <<>>
    ELSE LET b == BucketOrder[i] IN
         IF ~d[b].has THEN Warnings(d, i + 1)
         ELSE Warning(b, d[b].positions, d[b].colors)
              \o (IF RepairRaises(d[b].positions, d[b].colors) THEN <<>>
                  ELSE Warnings(d, i + 1))

\* ------------------------------------------------------------- add_object
\* lines 82-85: the flattened 4x4 matrix of obj.transformation, or identity
Matrix(t) == IF t = NoTransformation THEN Identity ELSE Translated

\* lines 88-91: obj.instance_color.rgb, unique per scene object
InstanceColor(o) == <<0, 0, o>>

\* lines 93-96 and 394-397: the parent of object o in the scene tree (objects
\* are numbered in tree order: 1 is a root, o > 1 is a child of o - 1)
ParentOf(o) == o - 1

ParentIndex(objs, o) == IF HasKey(objs, ParentOf(o)) THEN Get(objs, ParentOf(o)) ELSE -1

\* lines 98-102 and 399-403: the 3 x 4 settings record
ObjSettings(objs, o, obj_opacity) ==
    << <<TRUE, TRUE, TRUE, TRUE>>,
       InstanceColor(o) \o <<FALSE>>,
       <<ParentIndex(objs, o), obj_opacity, 10, 10>> >>

\* ------------------------------------------------------------ __init__
EmptyArrays == [b \in Buckets |-> <<>>]
EmptyElements == [k \in ElementKeys |-> <<>>]
EmptyBufferIds == [b \in Buckets |-> EmptyDict]

\* viewer.py line 127: the render modes of the viewer
ViewerRenderModes == {"wireframe", "shaded", "ghosted", "lighted", "instance"}

\* viewer.py lines 155-156, 177 and render.py lines 45-55: Render(viewer,
\* render_config), the configured render mode being mode
RenderInit(mode) ==
    /\ config = [rendermode |-> mode, ghostopacity |-> GhostOpacity]
    /\ render_rendermode = mode
    /\ render_opacity = 10

NoTimer == [made |-> FALSE, singleshot |-> FALSE, active |-> FALSE]
NoCall == [called |-> FALSE, interval |-> 0, timeout |-> 0, frames |-> 0, raised |-> FALSE]

\* viewer.py lines 186-187: no timer yet, frame_count = 0
TimerInit ==
    /\ frame_count = 0
    /\ timer = NoTimer
    /\ on_call = NoCall
    /\ trace = <<>>

NoHandler == [name |-> "none", obj |-> 0, rebuild_buffers |-> FALSE, state |-> "returned"]

\* an empty scene in a viewer that is not shown yet
SceneInit ==
    /\ running = FALSE
    /\ scene = <<>>
    /\ handler = NoHandler
    /\ todo = <<>>

\* lines 45-71
ManagerInit ==
    /\ positions = EmptyArrays
    /\ colors = EmptyArrays
    /\ elements = EmptyElements
    /\ object_indices = EmptyArrays
    /\ objects = EmptyDict
    /\ buffer_ids = EmptyBufferIds
    /\ transforms = <<>>
    /\ settings = <<>>
    /\ object_settings_cache = EmptyDict
    /\ transform_texture = 0
    /\ settings_texture = 0
    /\ gl_objects = <<>>
    /\ opacity = [o \in TreeObjs |-> 10]
    /\ transformation = [o \in TreeObjs |-> NoTransformation]
    /\ last_call = <<"__init__", 0>>
    /\ raised = ""
    /\ writes = <<>>
    /\ releases = <<>>
    /\ draw_log = <<>>
    /\ draw_args = <<>>
    /\ printed = <<>>
    /\ calls = 0
    /\ added = <<>>
    /\ supplied = EmptyArrays
    /\ built = <<>>
    /\ prev_built = <<>>
    /\ streak = 0
    /\ storage = <<>>

\* a buffer manager in a viewer with the default render mode
Init == ManagerInit /\ RenderInit("shaded") /\ TimerInit /\ SceneInit

\* a viewer constructed with any of its render modes configured
InitViewer ==
    /\ ManagerInit
    /\ \E mode \in ViewerRenderModes : RenderInit(mode)
    /\ TimerInit
    /\ SceneInit

Arrays == [positions |-> positions, colors |-> colors, elements |-> elements,
           object_indices |-> object_indices]

\* an upload of the transform rows put into add_object
AddObjectUploadsTransforms ==
    <<[target |-> transform_texture, offset |-> 0, data |-> transforms]>>

\* lines 73-161: add_object and _add_buffer_data call nothing of compas_viewer.gl
AddObjectUploads == <<>>

\* lines 73-103. obj is scene object o, whose four data attributes hold d.
AddObject(o, d) ==
    LET slot == Len(transforms)
        objs == Put(objects, o, slot)
        r == IngestBuckets(Arrays, {}, d, opacity[o], slot, 1)
    IN  /\ objects' = objs
        /\ positions' = r.m.positions
        /\ colors' = r.m.colors
        /\ elements' = r.m.elements
        /\ object_indices' = r.m.object_indices
        /\ IF r.raised
           THEN /\ UNCHANGED <<transforms, settings>>
                /\ raised' = "IndexError"
           ELSE /\ transforms' = Append(transforms, Matrix(transformation[o]))
                /\ settings' = Append(settings, ObjSettings(objs, o, opacity[o]))
                /\ raised' = ""
        /\ last_call' = <<"add_object", o>>
        /\ writes' = AddObjectUploads
        /\ releases' = <<>>
        /\ draw_log' = <<>> /\ draw_args' = <<>>
        /\ printed' = Warnings(d, 1)
        /\ UNCHANGED <<object_settings_cache, gpuVars, objVars>>

\* ------------------------------------------------------------ create_buffers
BufferNames(b) ==
    IF IsFaceBucket(b)
    THEN <<"positions", "colors", "object_indices", "elements", "elements_transparent">>
    ELSE <<"positions", "colors", "object_indices", "elements">>

\* the test of line 183 left out: every bucket gets buffers
HasVerticesAlways(b) == TRUE

\* line 183: the bucket holds vertices
HasVertices(b) == Len(positions[b]) > 0

\* GL names handed out before bucket number i gets its own (lines 182-191)
RECURSIVE NamesBefore(_)
NamesBefore(i) ==
    IF i = 1 THEN 0
    ELSE NamesBefore(i - 1)
         + (IF HasVertices(BucketOrder[i - 1]) THEN Len(BufferNames(BucketOrder[i - 1])) ELSE 0)

BucketIndex(b) == CHOOSE i \in 1..Len(BucketOrder) : BucketOrder[i] = b

\* lines 184-191: the dict entries written for bucket b, first GL name first + 1
RECURSIVE PutAll(_, _, _, _)
PutAll(dict, names, first, i) ==
    IF i > Len(names) THEN dict
    ELSE PutAll(Put(dict, names[i], first + i), names, first, i + 1)

\* An upload to a texture or a buffer: make_texture_buffer, update_texture_buffer,
\* update_vertex_buffer
Write(target, offset, data) == [target |-> target, offset |-> offset, data |-> data]

\* lines 166-170: the rows of the transform texture
TransformsArray == IF Len(transforms) > 0 THEN transforms ELSE <<Identity>>

\* line 178
DummySettings ==
    << <<FALSE, FALSE, FALSE, FALSE>>, <<0, 0, 0, FALSE>>, <<-1, 10, 10, 10>> >>

\* lines 173-179: the rows of the settings texture
SettingsArray == IF Len(settings) > 0 THEN settings ELSE <<DummySettings>>

NewGLObjects ==
    <<[kind |-> "texture", deletes |-> 0], [kind |-> "texture", deletes |-> 0]>>
    \o [i \in 1..NamesBefore(Len(BucketOrder) + 1) |-> [kind |-> "buffer", deletes |-> 0]]

\* lines 163-191
CreateBuffers ==
    LET first == Len(gl_objects)
    IN  /\ transform_texture' = first + 1
        /\ settings_texture' = first + 2
        /\ buffer_ids' =
             [b \in Buckets |->
                IF HasVertices(b)
                THEN PutAll(buffer_ids[b], BufferNames(b),
                            first + 2 + NamesBefore(BucketIndex(b)), 1)
                ELSE buffer_ids[b]]
        /\ gl_objects' = gl_objects \o NewGLObjects
        /\ last_call' = <<"create_buffers", 0>>
        /\ raised' = ""
        /\ writes' = <<Write(first + 1, 0, TransformsArray),
                       Write(first + 2, 0, SettingsArray)>>
        /\ releases' = <<>>
        /\ draw_log' = <<>> /\ draw_args' = <<>> /\ printed' = <<>>
        /\ UNCHANGED <<bucketVars, tableVars, objVars>>

\* ------------------------------------------------------------------- clear
Values(dict) == [i \in 1..Len(dict) |-> dict[i][2]]

\* lines 279-285: one glDeleteBuffers call per bucket that tracks buffers
RECURSIVE DeletedBuffers(_)
DeletedBuffers(i) ==
    IF i > Len(BucketOrder) THEN <<>>
    ELSE (IF buffer_ids[BucketOrder[i]] # EmptyDict
          THEN Values(buffer_ids[BucketOrder[i]]) ELSE <<>>)
         \o DeletedBuffers(i + 1)

\* lines 288-293: glDeleteTextures for each texture attribute present
DeletedTextures ==
    (IF transform_texture # 0 THEN <<transform_texture>> ELSE <<>>)
    \o (IF settings_texture # 0 THEN <<settings_texture>> ELSE <<>>)

Count(seq, x) == Cardinality({i \in 1..Len(seq) : seq[i] = x})

\* the reset of line 304 left out: the buckets keep their buffer names
ResetArraysKeepingBufferIds ==
    /\ positions' = EmptyArrays
    /\ colors' = EmptyArrays
    /\ elements' = EmptyElements
    /\ object_indices' = EmptyArrays
    /\ UNCHANGED buffer_ids

\* lines 296-304: every bucket's arrays and buffer names reset
ResetArrays ==
    /\ positions' = EmptyArrays
    /\ colors' = EmptyArrays
    /\ elements' = EmptyElements
    /\ object_indices' = EmptyArrays
    /\ buffer_ids' = EmptyBufferIds

\* the reset of line 307 left out: the transform table keeps its rows
ResetTablesKeepingTransforms ==
    /\ objects' = EmptyDict
    /\ UNCHANGED transforms
    /\ settings' = <<>>
    /\ object_settings_cache' = EmptyDict

\* the reset of line 309 left out: the settings cache keeps its records
ResetTablesKeepingCache ==
    /\ objects' = EmptyDict
    /\ transforms' = <<>>
    /\ settings' = <<>>
    /\ UNCHANGED object_settings_cache

\* lines 306-309
ResetTables ==
    /\ objects' = EmptyDict
    /\ transforms' = <<>>
    /\ settings' = <<>>
    /\ object_settings_cache' = EmptyDict

\* lines 276-309
Clear ==
    LET deleted == DeletedBuffers(1) \o DeletedTextures
    IN  /\ releases' = deleted
        /\ gl_objects' = [h \in 1..Len(gl_objects) |->
                            [gl_objects[h] EXCEPT !.deletes = @ + Count(deleted, h)]]
        /\ transform_texture' = 0
        /\ settings_texture' = 0
        /\ ResetArrays
        /\ ResetTables
        /\ last_call' = <<"clear", 0>>
        /\ raised' = ""
        /\ writes' = <<>>
        /\ draw_log' = <<>> /\ draw_args' = <<>> /\ printed' = <<>>
        /\ UNCHANGED objVars

\* --------------------------------------------------- update_object_transform
\* the row size left out of the offset
ByteOffsetInRows(index, row_bytes) == index

\* lines 328 and 413: byte_offset = index * (bytes of one row)
ByteOffset(index, row_bytes) == index * row_bytes

\* lines 311-329
UpdateObjectTransform(o) ==
    /\ last_call' = <<"update_object_transform", o>>
    /\ releases' = <<>>
    /\ draw_log' = <<>> /\ draw_args' = <<>> /\ printed' = <<>>
    /\ UNCHANGED <<bucketVars, gpuVars, objVars, objects, settings, object_settings_cache>>
    /\ IF ~HasKey(objects, o)
       THEN /\ raised' = "" /\ writes' = <<>> /\ UNCHANGED transforms
       ELSE LET index == Get(objects, o)
                matrix == Matrix(transformation[o])
            IN  IF index >= Len(transforms)
                THEN /\ raised' = "IndexError" /\ writes' = <<>> /\ UNCHANGED transforms
                ELSE /\ transforms' = [transforms EXCEPT ![index + 1] = matrix]
                     /\ IF transform_texture = 0
                        THEN /\ raised' = "AttributeError" /\ writes' = <<>>
                        ELSE /\ raised' = ""
                             /\ writes' = <<Write(transform_texture,
                                                  ByteOffset(index, TransformBytes), matrix)>>

\* ---------------------------------------------------- update_object_settings
\* the comparison of line 406 left out: the cache never answers
CacheNeverHit(cache, o, obj_settings) == FALSE

\* line 406: self.object_settings_cache.get(obj) == obj_settings
CacheHit(cache, o, obj_settings) == HasKey(cache, o) /\ Get(cache, o) = obj_settings

\* lines 384-414 on the state st = [cache, settings, writes, raised]
SettingsUpdate(st, o) ==
    IF ~HasKey(objects, o) THEN st
    ELSE LET obj_settings == ObjSettings(objects, o, opacity[o])
             index == Get(objects, o)
             cached == [st EXCEPT !.cache = Put(@, o, obj_settings)]
         IN  IF CacheHit(st.cache, o, obj_settings) THEN st
             ELSE IF index >= Len(st.settings)
             THEN [cached EXCEPT !.raised = "IndexError"]
             ELSE IF settings_texture = 0
             THEN [cached EXCEPT !.settings[index + 1] = obj_settings,
                                 !.raised = "AttributeError"]
             ELSE [cached EXCEPT !.settings[index + 1] = obj_settings,
                                 !.writes = Append(@, Write(settings_texture,
                                                            ByteOffset(index, SettingsBytes),
                                                            obj_settings))]

SettingsState == [cache |-> object_settings_cache, settings |-> settings,
                  writes |-> <<>>, raised |-> ""]

UpdateObjectSettings(o) ==
    LET st == SettingsUpdate(SettingsState, o)
    IN  /\ object_settings_cache' = st.cache
        /\ settings' = st.settings
        /\ writes' = st.writes
        /\ raised' = st.raised
        /\ last_call' = <<"update_object_settings", o>>
        /\ releases' = <<>>
        /\ draw_log' = <<>> /\ draw_args' = <<>> /\ printed' = <<>>
        /\ UNCHANGED <<bucketVars, gpuVars, objVars, objects, transforms>>

\* lines 379-382: every tracked object in dict order, until one raises
RECURSIVE SettingsLoop(_, _)
SettingsLoop(st, i) ==
    IF i > Len(objects) \/ st.raised # "" THEN st
    ELSE SettingsLoop(SettingsUpdate(st, objects[i][1]), i + 1)

UpdateSettings ==
    LET st == SettingsLoop(SettingsState, 1)
    IN  /\ object_settings_cache' = st.cache
        /\ settings' = st.settings
        /\ writes' = st.writes
        /\ raised' = st.raised
        /\ last_call' = <<"update_settings", 0>>
        /\ releases' = <<>>
        /\ draw_log' = <<>> /\ draw_args' = <<>> /\ printed' = <<>>
        /\ UNCHANGED <<bucketVars, gpuVars, objVars, objects, transforms>>

\* -------------------------------------------------------- update_object_data
\* lines 364-369: the first vertex whose object_index is the slot, or 0
FirstVertex(indices, index) ==
    IF \E i \in 1..Len(indices) : indices[i] = index
    THEN (CHOOSE i \in 1..Len(indices) :
            indices[i] = index /\ \A j \in 1..(i - 1) : indices[j] # index) - 1
    ELSE 0

\* lines 340-377 for bucket number i onward; d is what the obj._read*_data()
\* methods return for the attributes the object holds. st = [writes, raised, printed]
RECURSIVE DataLoop(_, _, _, _)
DataLoop(st, index, d, i) ==
    IF i > Len(BucketOrder) \/ st.raised # "" THEN st
    ELSE LET b == BucketOrder[i]
             g == d[b]
             start_idx == FirstVertex(object_indices[b], index)
         IN  IF ~g.has \/ buffer_ids[b] = EmptyDict THEN DataLoop(st, index, d, i + 1)
             ELSE IF RepairRaises(g.positions, g.colors)
             THEN [st EXCEPT !.raised = "IndexError",
                             !.printed = @ \o Warning(b, g.positions, g.colors)]
             ELSE DataLoop(
                    [st EXCEPT !.printed = @ \o Warning(b, g.positions, g.colors),
                               !.writes = @ \o
                        <<Write(Get(buffer_ids[b], "positions"),
                                start_idx * PositionFloats * 4, Flatten(g.positions)),
                          Write(Get(buffer_ids[b], "colors"),
                                start_idx * ColorFloats * 4,
                                Flatten(RepairColors(g.positions, g.colors)))>>],
                    index, d, i + 1)

\* the guard of lines 333-334 left out: self.objects[obj] raises KeyError
UpdateObjectDataUnguarded(o, d) ==
    LET st == IF HasKey(objects, o)
              THEN DataLoop([writes |-> <<>>, raised |-> "", printed |-> <<>>],
                            Get(objects, o), d, 1)
              ELSE [writes |-> <<>>, raised |-> "KeyError", printed |-> <<>>]
    IN  /\ writes' = st.writes
        /\ raised' = st.raised
        /\ last_call' = <<"update_object_data", o>>
        /\ releases' = <<>>
        /\ draw_log' = <<>> /\ draw_args' = <<>>
        /\ printed' = st.printed
        /\ UNCHANGED <<bucketVars, tableVars, gpuVars, objVars>>

\* lines 331-377
UpdateObjectData(o, d) ==
    LET st == IF HasKey(objects, o)
              THEN DataLoop([writes |-> <<>>, raised |-> "", printed |-> <<>>],
                            Get(objects, o), d, 1)
              ELSE [writes |-> <<>>, raised |-> "", printed |-> <<>>]
    IN  /\ writes' = st.writes
        /\ raised' = st.raised
        /\ last_call' = <<"update_object_data", o>>
        /\ releases' = <<>>
        /\ draw_log' = <<>> /\ draw_args' = <<>>
        /\ printed' = st.printed
        /\ UNCHANGED <<bucketVars, tableVars, gpuVars, objVars>>

\* -------------------------------------------------------------------- draw
RenderModes == {"shaded", "ghosted", "wireframe", "lighted"}
AsInt(bool) == IF bool THEN 1 ELSE 0

\* A call on the main shader, the line shader or GL: <<receiver, call, name, value, n>>
Call(who, op, name, value, n) == <<who, op, name, value, n>>

\* lines 200-202, 211-213, 225-227, 239-241
BindAttributes(who, b) ==
    <<Call(who, "bind_attribute", "position", Get(buffer_ids[b], "positions"), 3),
      Call(who, "bind_attribute", "color", Get(buffer_ids[b], "colors"), 4),
      Call(who, "bind_attribute", "object_index", Get(buffer_ids[b], "object_indices"), 1)>>

EnableAttributes(who) ==
    <<Call(who, "enable_attribute", "position", 0, 0),
      Call(who, "enable_attribute", "color", 0, 0),
      Call(who, "enable_attribute", "object_index", 0, 0)>>

FaceOrder == <<"_frontfaces_data", "_backfaces_data">>

\* lines 199-205
DrawFaceBucket(b, is_instance) ==
    IF buffer_ids[b] = EmptyDict THEN <<>>
    ELSE BindAttributes("shader", b)
         \o <<Call("shader", "draw_triangles", "elements",
                   Get(buffer_ids[b], "elements"), Len(elements[b]))>>
         \o (IF is_instance
             THEN <<Call("shader", "draw_triangles", "elements_transparent",
                         Get(buffer_ids[b], "elements_transparent"),
                         Len(elements[TransparentKey(b)]))>>
             ELSE <<>>)

\* the wireframe test of line 195 left out
DrawFacesInWireframe(is_instance, is_lighted, is_ghosted, is_wireframe) ==
    <<Call("GL", "glEnable", "GL_POLYGON_OFFSET_FILL", 0, 0)>>
    \o (IF ~is_ghosted \/ is_instance
        THEN <<Call("shader", "uniform1i", "is_lighted", AsInt(is_lighted), 0),
               Call("shader", "uniform1i", "element_type", 2, 0)>>
             \o DrawFaceBucket(FaceOrder[1], is_instance)
             \o DrawFaceBucket(FaceOrder[2], is_instance)
        ELSE <<>>)
    \o <<Call("GL", "glDisable", "GL_POLYGON_OFFSET_FILL", 0, 0)>>

\* lines 193-206
DrawFaces(is_instance, is_lighted, is_ghosted, is_wireframe) ==
    <<Call("GL", "glEnable", "GL_POLYGON_OFFSET_FILL", 0, 0)>>
    \o (IF ~is_wireframe /\ (~is_ghosted \/ is_instance)
        THEN <<Call("shader", "uniform1i", "is_lighted", AsInt(is_lighted), 0),
               Call("shader", "uniform1i", "element_type", 2, 0)>>
             \o DrawFaceBucket(FaceOrder[1], is_instance)
             \o DrawFaceBucket(FaceOrder[2], is_instance)
        ELSE <<>>)
    \o <<Call("GL", "glDisable", "GL_POLYGON_OFFSET_FILL", 0, 0)>>

\* lines 208-214
DrawPoints ==
    <<Call("shader", "uniform1i", "element_type", 0, 0)>>
    \o (IF buffer_ids["_points_data"] # EmptyDict
        THEN BindAttributes("shader", "_points_data")
             \o <<Call("shader", "draw_points", "elements",
                       Get(buffer_ids["_points_data"], "elements"),
                       Len(elements["_points_data"]))>>
        ELSE <<>>)

\* lines 216-230
DrawLines ==
    <<Call("GL", "glDisable", "GL_CULL_FACE", 0, 0),
      Call("line_shader", "bind", "", 0, 0),
      Call("line_shader", "uniform1i", "is_lighted", 0, 0),
      Call("line_shader", "uniform1i", "element_type", 1, 0)>>
    \o (IF buffer_ids["_lines_data"] # EmptyDict
        THEN EnableAttributes("line_shader")
             \o BindAttributes("line_shader", "_lines_data")
             \o <<Call("line_shader", "draw_lines", "elements",
                       Get(buffer_ids["_lines_data"], "elements"),
                       Len(elements["_lines_data"]))>>
        ELSE <<>>)
    \o <<Call("line_shader", "release", "", 0, 0),
         Call("GL", "glEnable", "GL_CULL_FACE", 0, 0)>>

\* the ghosted branch of lines 243-244 left out
DrawTransparentBucketOnly(b, is_ghosted) ==
    IF buffer_ids[b] = EmptyDict THEN <<>>
    ELSE BindAttributes("shader", b)
         \o <<Call("shader", "draw_triangles", "elements_transparent",
                   Get(buffer_ids[b], "elements_transparent"),
                   Len(elements[TransparentKey(b)]))>>

\* lines 238-244
DrawTransparentBucket(b, is_ghosted) ==
    IF buffer_ids[b] = EmptyDict THEN <<>>
    ELSE BindAttributes("shader", b)
         \o <<Call("shader", "draw_triangles", "elements_transparent",
                   Get(buffer_ids[b], "elements_transparent"),
                   Len(elements[TransparentKey(b)]))>>
         \o (IF is_ghosted
             THEN <<Call("shader", "draw_triangles", "elements",
                         Get(buffer_ids[b], "elements"), Len(elements[b]))>>
             ELSE <<>>)

\* the glDepthMask(GL_FALSE) of line 236 left out
DrawTransparentFacesDepthWriting(is_lighted, is_ghosted) ==
    <<Call("shader", "bind", "", 0, 0),
      Call("shader", "uniform1i", "is_lighted", AsInt(is_lighted), 0),
      Call("shader", "uniform1i", "element_type", 2, 0)>>
    \o DrawTransparentBucket(FaceOrder[1], is_ghosted)
    \o DrawTransparentBucket(FaceOrder[2], is_ghosted)
    \o <<Call("GL", "glDepthMask", "GL_TRUE", 0, 0)>>

\* lines 232-245
DrawTransparentFaces(is_lighted, is_ghosted) ==
    <<Call("shader", "bind", "", 0, 0),
      Call("shader", "uniform1i", "is_lighted", AsInt(is_lighted), 0),
      Call("shader", "uniform1i", "element_type", 2, 0),
      Call("GL", "glDepthMask", "GL_FALSE", 0, 0)>>
    \o DrawTransparentBucket(FaceOrder[1], is_ghosted)
    \o DrawTransparentBucket(FaceOrder[2], is_ghosted)
    \o <<Call("GL", "glDepthMask", "GL_TRUE", 0, 0)>>

\* the early return of lines 255-256 left out
HasGeometryAlways == TRUE

\* line 253
HasGeometry == \E b \in Buckets : buffer_ids[b] # EmptyDict

\* the transparent pass of lines 273-274 moved before the line pass of line 270
DrawCallsTransparentBeforeLines(rendermode, is_instance) ==
    LET is_wireframe == rendermode = "wireframe"
        is_lighted == rendermode = "lighted"
        is_ghosted == rendermode = "ghosted"
    IN  IF ~HasGeometry THEN <<>>
        ELSE <<Call("shader", "bind", "", 0, 0),
               Call("shader", "uniform1i", "is_grid", 0, 0)>>
             \o EnableAttributes("shader")
             \o DrawFaces(is_instance, is_lighted, is_ghosted, is_wireframe)
             \o DrawPoints
             \o <<Call("shader", "release", "", 0, 0)>>
             \o (IF ~is_instance /\ ~is_wireframe
                 THEN DrawTransparentFaces(is_lighted, is_ghosted)
                 ELSE <<>>)
             \o DrawLines

\* lines 247-274: the calls draw issues, in order
DrawCalls(rendermode, is_instance) ==
    LET is_wireframe == rendermode = "wireframe"
        is_lighted == rendermode = "lighted"
        is_ghosted == rendermode = "ghosted"
    IN  IF ~HasGeometry THEN <<>>
        ELSE <<Call("shader", "bind", "", 0, 0),
               Call("shader", "uniform1i", "is_grid", 0, 0)>>
             \o EnableAttributes("shader")
             \o DrawFaces(is_instance, is_lighted, is_ghosted, is_wireframe)
             \o DrawPoints
             \o <<Call("shader", "release", "", 0, 0)>>
             \o DrawLines
             \o (IF ~is_instance /\ ~is_wireframe
                 THEN DrawTransparentFaces(is_lighted, is_ghosted)
                 ELSE <<>>)

Draw(rendermode, is_instance) ==
    /\ draw_log' = DrawCalls(rendermode, is_instance)
    /\ draw_args' = <<rendermode, is_instance>>
    /\ printed' = <<>>
    /\ last_call' = <<"draw", 0>>
    /\ raised' = ""
    /\ writes' = <<>>
    /\ releases' = <<>>
    /\ UNCHANGED <<bucketVars, tableVars, gpuVars, objVars>>

\* ------------------------------------------------- the scene objects' side
\* obj.opacity = v (ObjectSetting and the scene API assign it)
SetOpacity(o, v) ==
    /\ opacity[o] # v
    /\ opacity' = [opacity EXCEPT ![o] = v]
    /\ last_call' = <<"set_opacity", o>>
    /\ raised' = ""
    /\ writes' = <<>>
    /\ releases' = <<>>
    /\ draw_log' = <<>> /\ draw_args' = <<>> /\ printed' = <<>>
    /\ UNCHANGED <<bucketVars, tableVars, gpuVars, transformation>>

\* obj.transformation = t
SetTransformation(o, t) ==
    /\ transformation[o] # t
    /\ transformation' = [transformation EXCEPT ![o] = t]
    /\ last_call' = <<"set_transformation", o>>
    /\ raised' = ""
    /\ writes' = <<>>
    /\ releases' = <<>>
    /\ draw_log' = <<>> /\ draw_args' = <<>> /\ printed' = <<>>
    /\ UNCHANGED <<bucketVars, tableVars, gpuVars, opacity>>

\* ------------------------------------------------------------ producer data
\* What the _read_*_data methods of scene objects hand over: (positions,
\* colors, elements) per bucket, elements one index tuple per primitive.
Arity(b) == IF b = "_points_data" THEN 1 ELSE IF b = "_lines_data" THEN 2 ELSE 3

\* The primitive of bucket b on consecutive vertices i, i + 1, ...
Prim(b, i) == [k \in 1..Arity(b) |-> i + k - 1]

Pos == <<0, 0, 0>>
HalfAlpha == <<0, 0, 0, 5>>
Opaque == <<0, 0, 0, 10>>

\* Data sets of bucket b: colours too few (last one repeated), too many
\* (truncated), matching with mixed alpha and a repeated primitive, none at all
\* for a vertex (IndexError), no vertex, and a primitive on three vertices.
\* Primitives reach past the last vertex where the arity exceeds the vertices.
Shapes(b) ==
    {Data(<<Pos, Pos>>, <<Opaque>>, <<Prim(b, 0)>>),
     Data(<<Pos>>, <<HalfAlpha, Opaque>>, <<Prim(b, 0)>>),
     Data(<<Pos, Pos>>, <<Opaque, HalfAlpha>>, <<Prim(b, 0), Prim(b, 0)>>),
     Data(<<Pos>>, <<>>, <<Prim(b, 0)>>),
     Data(<<>>, <<HalfAlpha>>, <<>>),
     Data(<<Pos, Pos, Pos>>, <<Opaque, Opaque, HalfAlpha>>, <<Prim(b, 0), Prim(b, 1)>>)}

NoBuckets == [b \in Buckets |-> NoData]

\* Objects that hold data for one bucket
OneBucketData == UNION {{[NoBuckets EXCEPT ![b] = g] : g \in Shapes(b)} : b \in Buckets}

\* ------------------------------------------- ingestion: add_object and clear
\* the alpha of the colour that vertex e of data set g ends up with: its own, or
\* that of the last colour supplied when the list is too short (0: no such vertex)
AlphaOf(g, e) ==
    IF e >= Len(g.positions) \/ g.colors = <<>> THEN 0
    ELSE g.colors[IF e < Len(g.colors) THEN e + 1 ELSE Len(g.colors)][4]

\* history: every index handed to a bucket whose ingestion completed, with the
\* number of vertices the bucket held before, the alpha of its vertex and the
\* object's opacity during the call
Supplied(o, d) ==
    LET done == IngestBuckets(Arrays, {}, d, opacity[o], Len(transforms), 1).done
    IN  [b \in Buckets |->
            IF b \in done
            THEN supplied[b] \o
                 [i \in 1..Len(Flatten(d[b].elements)) |->
                    [local |-> Flatten(d[b].elements)[i],
                     pre |-> Len(object_indices[b]),
                     valid |-> Flatten(d[b].elements)[i] < Len(d[b].positions),
                     alpha |-> AlphaOf(d[b], Flatten(d[b].elements)[i]),
                     opacity |-> opacity[o]]]
            ELSE supplied[b]]

IngestAdd(o, d) ==
    /\ o = calls + 1
    /\ AddObject(o, d)
    /\ calls' = calls + 1
    /\ added' = Append(added, <<o, d>>)
    /\ supplied' = Supplied(o, d)
    /\ UNCHANGED <<built, prev_built, streak, storage, viewerVars>>

IngestClear ==
    /\ objects # EmptyDict
    /\ Clear
    /\ calls' = 0
    /\ added' = <<>>
    /\ supplied' = EmptyArrays
    /\ UNCHANGED <<built, prev_built, streak, storage, viewerVars>>

IngestSetOpacity(o, v) ==
    /\ o = calls + 1
    /\ SetOpacity(o, v)
    /\ UNCHANGED <<histVars, viewerVars>>

IngestNext ==
    \/ \E o \in Objs, d \in OneBucketData : IngestAdd(o, d)
    \/ IngestClear
    \/ \E o \in Objs, v \in Opacities : IngestSetOpacity(o, v)

SpecIngest == Init /\ [][IngestNext]_vars

\* ------------------------------------------------- the manager's life cycle
\* Scene objects: a mesh with points, lines and both face sides (one vertex
\* translucent), and an object whose line data come without colours (its points
\* are ingested, then colors[-1] raises IndexError).
Triangle == Data(<<Pos, Pos, Pos>>, <<Opaque, Opaque, HalfAlpha>>,
                 <<Prim("_frontfaces_data", 0)>>)

Mesh == [b \in Buckets |->
            IF IsFaceBucket(b) THEN Triangle
            ELSE Data(<<Pos, Pos>>, <<Opaque>>, <<Prim(b, 0)>>)]

NoLineColors ==
    [NoBuckets EXCEPT !["_points_data"] = Data(<<Pos>>, <<Opaque>>, <<Prim("_points_data", 0)>>),
                      !["_lines_data"] = Data(<<Pos, Pos>>, <<>>, <<Prim("_lines_data", 0)>>)]

SceneData == {Mesh, NoLineColors}

\* create_buffers calls so far: each makes the two textures
Creates == Cardinality({h \in 1..Len(gl_objects) : gl_objects[h].kind = "texture"}) \div 2

\* Any scene object, tracked already or not, is handed to add_object.
LifeAdd(o, d) ==
    /\ calls < MaxCalls
    /\ AddObject(o, d)
    /\ calls' = calls + 1
    /\ streak' = 0
    /\ UNCHANGED <<added, supplied, built, prev_built, storage, viewerVars>>

LifeCreate ==
    /\ Creates < MaxCreates
    /\ CreateBuffers
    /\ streak' = 0
    /\ UNCHANGED <<calls, added, supplied, built, prev_built, storage, viewerVars>>

LifeClear ==
    /\ Clear
    /\ calls' = 0
    /\ streak' = 0
    /\ UNCHANGED <<added, supplied, built, prev_built, storage, viewerVars>>

LifeUpdateTransform(o) ==
    /\ UpdateObjectTransform(o)
    /\ streak' = 0
    /\ UNCHANGED <<calls, added, supplied, built, prev_built, storage, viewerVars>>

LifeUpdateSettings(o) ==
    /\ UpdateObjectSettings(o)
    /\ streak' = IF last_call = <<"update_object_settings", o>> THEN 2 ELSE 1
    /\ UNCHANGED <<calls, added, supplied, built, prev_built, storage, viewerVars>>

LifeUpdateAllSettings ==
    /\ UpdateSettings
    /\ streak' = 0
    /\ UNCHANGED <<calls, added, supplied, built, prev_built, storage, viewerVars>>

LifeUpdateData(o, d) ==
    /\ UpdateObjectData(o, d)
    /\ streak' = 0
    /\ UNCHANGED <<calls, added, supplied, built, prev_built, storage, viewerVars>>

LifeDraw(rendermode, is_instance) ==
    /\ Draw(rendermode, is_instance)
    /\ streak' = 0
    /\ UNCHANGED <<calls, added, supplied, built, prev_built, storage, viewerVars>>

\* The viewer restyles an object of the scene.
LifeSetOpacity(o, v) ==
    /\ HasKey(objects, o)
    /\ SetOpacity(o, v)
    /\ streak' = 0
    /\ UNCHANGED <<calls, added, supplied, built, prev_built, storage, viewerVars>>

\* The viewer moves an object of the scene.
LifeSetTransformation(o, t) ==
    /\ HasKey(objects, o)
    /\ SetTransformation(o, t)
    /\ streak' = 0
    /\ UNCHANGED <<calls, added, supplied, built, prev_built, storage, viewerVars>>

Next ==
    \/ \E o \in Objs, d \in SceneData : LifeAdd(o, d)
    \/ LifeCreate
    \/ LifeClear
    \/ \E o \in Objs : LifeUpdateTransform(o)
    \/ \E o \in Objs : LifeUpdateSettings(o)
    \/ LifeUpdateAllSettings
    \/ \E o \in Objs, d \in SceneData : LifeUpdateData(o, d)
    \/ \E rendermode \in RenderModes, is_instance \in BOOLEAN : LifeDraw(rendermode, is_instance)

Spec == Init /\ [][Next]_vars

\* ------------------------------------------ a scene built object by object
\* Every scene object is handed to add_object once per build: the k-th call
\* since construction or clear() adds object k.
SceneAdd(o, d) ==
    /\ o = calls + 1
    /\ AddObject(o, d)
    /\ calls' = calls + 1
    /\ streak' = 0
    /\ UNCHANGED <<added, supplied, built, prev_built, storage, viewerVars>>

BuildNext ==
    \/ \E o \in Objs, d \in SceneData : SceneAdd(o, d)
    \/ LifeCreate
    \/ LifeClear
    \/ \E o \in Objs : LifeUpdateTransform(o)
    \/ \E o \in Objs : LifeUpdateSettings(o)
    \/ LifeUpdateAllSettings
    \/ \E o \in Objs, d \in SceneData : LifeUpdateData(o, d)

SpecBuild == Init /\ [][BuildNext]_vars

\* ------------------------------------------------------- frames of a scene
\* An object that holds data for bucket b only: three vertices, the last one
\* translucent, and one primitive.
Single(b) ==
    [NoBuckets EXCEPT ![b] = Data(<<Pos, Pos, Pos>>, <<Opaque, Opaque, HalfAlpha>>,
                                   <<Prim(b, 0)>>)]

DrawData == {Mesh, Single("_points_data"), Single("_lines_data"), Single("_frontfaces_data")}

DrawNext ==
    \/ \E o \in Objs, d \in DrawData : SceneAdd(o, d)
    \/ LifeCreate
    \/ LifeClear
    \/ \E rendermode \in RenderModes, is_instance \in BOOLEAN : LifeDraw(rendermode, is_instance)

SpecDraw == Init /\ [][DrawNext]_vars

\* -------------------------------------------- the settings cache at work
\* The root object is the one restyled; every object's settings are refreshed.
CacheNext ==
    \/ \E o \in Objs, d \in SceneData : SceneAdd(o, d)
    \/ LifeCreate
    \/ LifeClear
    \/ \E v \in Opacities : LifeSetOpacity(1, v)
    \/ \E o \in Objs : LifeUpdateSettings(o)
    \/ LifeUpdateAllSettings

SpecCache == Init /\ [][CacheNext]_vars

\* ---------------------------------------------- building, clearing, rebuilding
\* history: what a build amounts to when create_buffers returns
Build == [added |-> added,
          vertices |-> [b \in Buckets |-> Len(positions[b]) \div PositionFloats],
          transforms |-> Len(transforms),
          settings |-> Len(settings)]

RebuildAdd(o, d) ==
    /\ o = calls + 1
    /\ AddObject(o, d)
    /\ calls' = calls + 1
    /\ added' = Append(added, <<o, d>>)
    /\ built' = <<>>
    /\ UNCHANGED <<supplied, prev_built, streak, storage, viewerVars>>

RebuildCreate ==
    /\ Creates < MaxBuilds
    /\ CreateBuffers
    /\ built' = <<Build>>
    /\ UNCHANGED <<calls, added, supplied, prev_built, streak, storage, viewerVars>>

RebuildClear ==
    /\ Clear
    /\ calls' = 0
    /\ added' = <<>>
    /\ built' = <<>>
    /\ prev_built' = built
    /\ UNCHANGED <<supplied, streak, storage, viewerVars>>

RebuildNext ==
    \/ \E v \in Opacities : LifeSetOpacity(1, v)
    \/ \E o \in Objs, d \in SceneData : RebuildAdd(o, d)
    \/ RebuildCreate
    \/ RebuildClear

SpecRebuild == Init /\ [][RebuildNext]_vars

\* ------------------------------------------- a scene tree added in any order
\* Objects of the scene tree are handed to add_object once per build, children
\* before or after their parents, MaxCalls of them.
TreeAdd(o, d) ==
    /\ ~HasKey(objects, o)
    /\ calls < MaxCalls
    /\ AddObject(o, d)
    /\ calls' = calls + 1
    /\ streak' = 0
    /\ UNCHANGED <<added, supplied, built, prev_built, storage, viewerVars>>

TreeNext ==
    \/ \E o \in TreeObjs, d \in SceneData : TreeAdd(o, d)
    \/ LifeCreate
    \/ LifeClear
    \/ \E o \in TreeObjs : LifeUpdateSettings(o)
    \/ LifeUpdateAllSettings

SpecTree == Init /\ [][TreeNext]_vars

\* ------------------------------------------- objects restyled and refreshed
\* One build of the scene, before and after create_buffers: the second object
\* is the one moved and restyled; any object is refreshed.
UpdateNext ==
    \/ \E o \in Objs, d \in SceneData : SceneAdd(o, d)
    \/ LifeCreate
    \/ \E v \in Opacities : LifeSetOpacity(2, v)
    \/ \E t \in Transformations : LifeSetTransformation(2, t)
    \/ \E o \in Objs : LifeUpdateTransform(o)
    \/ \E o \in Objs : LifeUpdateSettings(o)

SpecUpdate == Init /\ [][UpdateNext]_vars

\* ------------------------------------------------ the GPU side of the uploads
\* What make_texture_buffer, make_vertex_buffer and make_index_buffer allocate:
\* room for the array handed over, in rows of row_bytes bytes
Stored(row_bytes, rows) == [row_bytes |-> row_bytes, rows |-> rows]

\* lines 184-191: the arrays uploaded for bucket b, in the order of BufferNames(b)
BucketUploads(b) ==
    <<Stored(4, positions[b]), Stored(4, colors[b]), Stored(4, object_indices[b]),
      Stored(4, elements[b])>>
    \o (IF IsFaceBucket(b) THEN <<Stored(4, elements[TransparentKey(b)])>> ELSE <<>>)

RECURSIVE UploadsFrom(_)
UploadsFrom(i) ==
    IF i > Len(BucketOrder) THEN <<>>
    ELSE (IF HasVertices(BucketOrder[i]) THEN BucketUploads(BucketOrder[i]) ELSE <<>>)
         \o UploadsFrom(i + 1)

\* lines 163-191: what the GL names of NewGLObjects hold when create_buffers returns
NewStorage ==
    <<Stored(TransformBytes, TransformsArray), Stored(SettingsBytes, SettingsArray)>>
    \o UploadsFrom(1)

\* update_texture_buffer uploads one row, update_vertex_buffer an array of floats
RowsOf(st, w) == IF st[w.target].row_bytes = 4 THEN w.data ELSE <<w.data>>

\* the upload lies inside the room allocated for its target
Fits(st, w) ==
    w.offset + st[w.target].row_bytes * Len(RowsOf(st, w))
        <= st[w.target].row_bytes * Len(st[w.target].rows)

\* A partial upload overwrites the rows from its byte offset on; one that does
\* not fit is rejected by GL (GL_INVALID_VALUE) and changes nothing.
Upload(st, w) ==
    LET old == st[w.target].rows
        new == RowsOf(st, w)
        first == w.offset \div st[w.target].row_bytes
    IN  IF ~Fits(st, w) THEN st
        ELSE [st EXCEPT ![w.target].rows =
                [i \in 1..Len(old) |->
                    IF first < i /\ i <= first + Len(new) THEN new[i - first] ELSE old[i]]]

RECURSIVE Uploaded(_, _, _)
Uploaded(st, ws, i) == IF i > Len(ws) THEN st ELSE Uploaded(Upload(st, ws[i]), ws, i + 1)

\* glDeleteBuffers, glDeleteTextures: the room of the names is given back
Freed(st, names) ==
    [h \in 1..Len(st) |->
        IF \E i \in 1..Len(names) : names[i] = h THEN Stored(st[h].row_bytes, <<>>)
        ELSE st[h]]

\* A mesh read again from its geometry, every colour translucent now
Tinted == [b \in Buckets |->
             IF IsFaceBucket(b)
             THEN Data(<<Pos, Pos, Pos>>, <<HalfAlpha, HalfAlpha, HalfAlpha>>,
                       <<Prim("_frontfaces_data", 0)>>)
             ELSE Data(<<Pos, Pos>>, <<HalfAlpha>>, <<Prim(b, 0)>>)]

RefreshData == SceneData \cup {Tinted}

\* the objects of the scene: those of SceneData and a point cloud, which holds
\* no line and no face data when it is added
GpuData == SceneData \cup {Single("_points_data")}

GpuAdd(o, d) ==
    /\ o = calls + 1
    /\ AddObject(o, d)
    /\ calls' = calls + 1
    /\ added' = Append(added, <<o, d>>)
    /\ UNCHANGED <<supplied, built, prev_built, streak, storage, viewerVars>>

GpuCreate ==
    /\ Creates < MaxCreates
    /\ CreateBuffers
    /\ storage' = storage \o NewStorage
    /\ UNCHANGED <<calls, added, supplied, built, prev_built, streak, viewerVars>>

GpuClear ==
    /\ Clear
    /\ calls' = 0
    /\ added' = <<>>
    /\ storage' = Freed(storage, releases')
    /\ UNCHANGED <<supplied, built, prev_built, streak, viewerVars>>

GpuSetOpacity(o, v) ==
    /\ HasKey(objects, o)
    /\ SetOpacity(o, v)
    /\ UNCHANGED <<histVars, viewerVars>>

GpuUpdateTransform(o) ==
    /\ UpdateObjectTransform(o)
    /\ storage' = Uploaded(storage, writes', 1)
    /\ UNCHANGED <<calls, added, supplied, built, prev_built, streak, viewerVars>>

GpuUpdateSettings(o) ==
    /\ UpdateObjectSettings(o)
    /\ storage' = Uploaded(storage, writes', 1)
    /\ UNCHANGED <<calls, added, supplied, built, prev_built, streak, viewerVars>>

GpuUpdateData(o, d) ==
    /\ UpdateObjectData(o, d)
    /\ storage' = Uploaded(storage, writes', 1)
    /\ UNCHANGED <<calls, added, supplied, built, prev_built, streak, viewerVars>>

GpuDraw(rendermode, is_instance) ==
    /\ Draw(rendermode, is_instance)
    /\ UNCHANGED <<histVars, viewerVars>>

\* The manager with the GPU side of its uploads: a scene built object by
\* object, before and after create_buffers; the first object is the one restyled.
GpuNext ==
    \/ \E o \in Objs, d \in GpuData : GpuAdd(o, d)
    \/ GpuCreate
    \/ GpuClear
    \/ \E v \in Opacities : GpuSetOpacity(1, v)
    \/ \E o \in Objs : GpuUpdateTransform(o)
    \/ \E o \in Objs : GpuUpdateSettings(o)
    \/ \E o \in Objs, d \in RefreshData : GpuUpdateData(o, d)
    \/ \E rendermode \in {"shaded", "ghosted"} : GpuDraw(rendermode, FALSE)

SpecGpu == Init /\ [][GpuNext]_vars

\* ------------------------------------------------------ claims on ingestion
LastData == added[Len(added)][2]
AddReturned == last_call[1] = "add_object" /\ raised = ""
SeqValues(seq) == {seq[i] : i \in 1..Len(seq)}
SameBag(s, t) == \A v \in SeqValues(s) \cup SeqValues(t) : Count(s, v) = Count(t, v)
FaceLists(b) == elements[b] \o elements[TransparentKey(b)]
OffsetIndices(entries) == [i \in 1..Len(entries) |-> entries[i].local + entries[i].pre]
ValidEntries(b) == SelectSeq(supplied[b], LAMBDA s : s.valid)

\* C1 as stated: in each face bucket the opaque and the transparent list
\* together hold exactly the offset indices the objects supplied, none lost and
\* none duplicated, and no index value is in both lists.
C1_PartitionOfSupplied ==
    \A b \in FaceBuckets :
        /\ SameBag(FaceLists(b), OffsetIndices(supplied[b]))
        /\ SeqValues(elements[b]) \cap SeqValues(elements[TransparentKey(b)]) = {}

\* C1 amended: the two lists together hold exactly the offset indices that lie
\* within the vertices of the data set that supplied them (an index at or beyond
\* that count is dropped), each as often as supplied, and no value is in both.
C1_PartitionOfInRange ==
    \A b \in FaceBuckets :
        /\ SameBag(FaceLists(b), OffsetIndices(ValidEntries(b)))
        /\ SeqValues(elements[b]) \cap SeqValues(elements[TransparentKey(b)]) = {}

\* C1 witness: a face bucket that got indices from two add_object calls, some of
\* them out of range, and holds indices in both of its lists
C1_Witness ==
    \E b \in FaceBuckets :
        /\ elements[b] # <<>> /\ elements[TransparentKey(b)] # <<>>
        /\ \E i, j \in 1..Len(supplied[b]) :
              supplied[b][i].pre = 0 /\ supplied[b][j].pre > 0 /\ ~supplied[b][j].valid

\* C2: every bucket holds one RGBA colour and one object index per vertex:
\* len(colors) / 4 = len(positions) / 3 = len(object_indices)
C2_OneColorPerVertex ==
    \A b \in Buckets :
        /\ Len(colors[b]) = ColorFloats * Len(object_indices[b])
        /\ Len(positions[b]) = PositionFloats * Len(object_indices[b])

\* C2 witness: add_object returned for data whose colour list was shorter than
\* its position list, on top of data whose colour list was longer
C2_Witness ==
    /\ AddReturned
    /\ Len(added) >= 2
    /\ \E b \in Buckets :
          /\ LastData[b].has
          /\ 0 < Len(LastData[b].colors)
          /\ Len(LastData[b].colors) < Len(LastData[b].positions)
          /\ added[1][2][b].has
          /\ Len(added[1][2][b].colors) > Len(added[1][2][b].positions)
          /\ Len(added[1][2][b].positions) > 0

Appended(old, new) == SubSeq(new, Len(old) + 1, Len(new))

\* C3: whenever add_object appends data to a bucket, the old indices stay and
\* every index it stores is the local index plus the number of vertices the
\* bucket held before, so it is at least that number and is no index of an
\* earlier object's vertices.
C3_IndicesOffsetByVertexCount ==
    [][\A b \in Buckets :
          Len(supplied'[b]) > Len(supplied[b]) =>
            LET pre == Len(object_indices[b])
                new == Appended(supplied[b], supplied'[b])
                locals == [i \in 1..Len(new) |-> new[i].local]
                Kept(k) == SubSeq(elements'[k], 1, Len(elements[k])) = elements[k]
                Shifted(k) ==
                    \A v \in SeqValues(Appended(elements[k], elements'[k])) :
                        v >= pre /\ v - pre \in SeqValues(locals)
            IN  IF IsFaceBucket(b)
                THEN /\ Kept(b) /\ Shifted(b)
                     /\ Kept(TransparentKey(b)) /\ Shifted(TransparentKey(b))
                ELSE /\ Kept(b)
                     /\ Appended(elements[b], elements'[b])
                          = [i \in 1..Len(locals) |-> locals[i] + pre]
      ]_vars

\* C3 witness: a bucket holds the indices of a second object, stored on top of
\* the vertices of a first one
C3_Witness ==
    /\ AddReturned
    /\ \E b \in Buckets :
          /\ elements[b] # <<>>
          /\ \E i \in 1..Len(supplied[b]) : supplied[b][i].pre > 0 /\ supplied[b][i].valid

\* ---------------------------------------------------- claims on the tables
\* C4 as stated: in every state (draw has no precondition) each vertex's
\* object_index in every bucket is a valid slot, >= 0 and < len(transforms),
\* and len(transforms) = len(settings).
C4_ObjectIndexIsValidSlot ==
    /\ \A b \in Buckets :
          \A i \in 1..Len(object_indices[b]) :
             object_indices[b][i] >= 0 /\ object_indices[b][i] < Len(transforms)
    /\ Len(transforms) = Len(settings)

\* C5 as stated: when add_object returns, the object's slot is the number of
\* add_object calls made before it since construction or the last clear(), and
\* len(transforms) = len(settings) = the number of add_object calls since then.
C5_SlotIsCallCount ==
    AddReturned =>
        /\ Get(objects, last_call[2]) = calls - 1
        /\ Len(transforms) = calls
        /\ Len(settings) = calls

\* C6 as stated: a slot that objects holds for an object is still the
\* object's slot after every step other than clear(), a further add_object of
\* the same object included.
C6_SlotStableUntilClear ==
    [][\A o \in Objs :
          (HasKey(objects, o) /\ last_call'[1] # "clear")
            => (HasKey(objects', o) /\ Get(objects', o) = Get(objects, o))
      ]_vars

\* ------------------------------------------------ claims on the settings cache
UpdatedSettingsOf(o) == <<"update_object_settings", o>>

\* C7: update_object_settings issues at most one GPU write, and a second call
\* for the same object right after the first one issues none, raises nothing and
\* leaves the cache and the settings table as they were.
C7_SecondUpdateIsNoOp ==
    [][\A o \in Objs :
          /\ last_call' = UpdatedSettingsOf(o) => Len(writes') <= 1
          /\ (last_call = UpdatedSettingsOf(o) /\ last_call' = UpdatedSettingsOf(o))
               => /\ writes' = <<>>
                  /\ raised' = ""
                  /\ object_settings_cache' = object_settings_cache
                  /\ settings' = settings
      ]_vars

\* C7 witness: the second of two calls in a row has returned for a tracked
\* object restyled to opacity 0.5 while the settings texture exists; the table
\* row and the cache hold the record the first call computed
C7_Witness ==
    /\ streak = 2
    /\ raised = ""
    /\ writes = <<>>
    /\ settings_texture # 0
    /\ \E o \in Objs :
          /\ last_call = UpdatedSettingsOf(o)
          /\ HasKey(objects, o)
          /\ opacity[o] = 5
          /\ Get(objects, o) < Len(settings)
          /\ Get(object_settings_cache, o) = ObjSettings(objects, o, 5)
          /\ settings[Get(objects, o) + 1] = ObjSettings(objects, o, 5)

\* --------------------------------------------------------- claims on clear
\* C8: a build (add_object calls, then create_buffers) that follows the
\* clear() of an earlier build of the same objects in the same order has the
\* same vertex count in every bucket, as many transforms and as many settings.
C8_RebuildSameCounts ==
    (built # <<>> /\ prev_built # <<>> /\ built[1].added = prev_built[1].added)
      => /\ built[1].vertices = prev_built[1].vertices
         /\ built[1].transforms = prev_built[1].transforms
         /\ built[1].settings = prev_built[1].settings

\* C8 witness: the second build of two objects is done, the first build of the
\* same two was cleared, and it holds vertices and table rows
C8_Witness ==
    /\ built # <<>> /\ prev_built # <<>>
    /\ built[1].added = prev_built[1].added
    /\ Len(built[1].added) >= 2
    /\ built[1].transforms >= 2
    /\ \E b \in Buckets : built[1].vertices[b] > 0

\* C9: after clear() every positions, colors, elements, transparent-elements
\* and object_indices array is empty, the slot map, both tables and the settings
\* cache are empty and no buffer or texture is tracked, as after __init__.
C9_ClearedIsFresh ==
    last_call[1] = "clear" =>
        /\ \A b \in Buckets :
              /\ positions[b] = <<>> /\ colors[b] = <<>> /\ object_indices[b] = <<>>
              /\ buffer_ids[b] = <<>>
        /\ \A k \in ElementKeys : elements[k] = <<>>
        /\ objects = <<>> /\ transforms = <<>> /\ settings = <<>>
        /\ object_settings_cache = <<>>
        /\ transform_texture = 0 /\ settings_texture = 0

\* C9 witness: clear() has torn down a build whose buffers and textures it
\* released
C9_Witness ==
    /\ last_call[1] = "clear"
    /\ \E i \in 1..Len(releases) : gl_objects[releases[i]].kind = "buffer"
    /\ \E i \in 1..Len(releases) : gl_objects[releases[i]].kind = "texture"

\* no GL name the manager was handed is still unreleased
NoResources == \A h \in 1..Len(gl_objects) : gl_objects[h].deletes > 0

\* C10: no GL name is passed to glDelete* more than once, and a clear() that
\* starts when no resource exists releases nothing and raises nothing.
C10_NoDoubleRelease ==
    [][/\ \A h \in 1..Len(gl_objects') : gl_objects'[h].deletes <= 1
       /\ (NoResources /\ last_call'[1] = "clear")
            => (releases' = <<>> /\ raised' = "")
      ]_vars

\* C10 witness: a second clear() in a row has returned after every buffer and
\* texture of a build was released
C10_Witness ==
    /\ last_call[1] = "clear"
    /\ releases = <<>>
    /\ Len(gl_objects) > 2
    /\ \A h \in 1..Len(gl_objects) : gl_objects[h].deletes = 1

\* ------------------------------------------------- claims on GPU resources
\* C11 as stated: when clear() has returned, every GL name create_buffers was
\* handed has been released, also when create_buffers ran twice with no clear()
\* in between.
C11_ClearReleasesEveryHandle == last_call[1] = "clear" => NoResources

IsGLObject(h, kind) == h \in 1..Len(gl_objects) /\ gl_objects[h].kind = kind

\* the buffer names bucket b tracks, each a GL buffer of its own
TracksBuffers(b, names) ==
    /\ {buffer_ids[b][i][1] : i \in 1..Len(buffer_ids[b])} = names
    /\ Len(buffer_ids[b]) = Cardinality(names)
    /\ \A i \in 1..Len(buffer_ids[b]) : IsGLObject(buffer_ids[b][i][2], "buffer")

\* C12: when create_buffers has returned, a bucket tracks buffers iff it holds
\* a vertex: positions, colors, object_indices and elements, and for a face
\* bucket elements_transparent too; both textures exist, and they were made from
\* one placeholder row each (identity; all-false flags, parent -1) when no
\* object was added.
C12_BuffersIffVertices ==
    last_call[1] = "create_buffers" =>
        /\ \A b \in Buckets :
              IF Len(positions[b]) > 0
              THEN TracksBuffers(b, {"positions", "colors", "object_indices", "elements"}
                                    \cup (IF IsFaceBucket(b)
                                          THEN {"elements_transparent"} ELSE {}))
              ELSE buffer_ids[b] = <<>>
        /\ IsGLObject(transform_texture, "texture")
        /\ IsGLObject(settings_texture, "texture")
        /\ transform_texture # settings_texture
        /\ Len(writes) = 2
        /\ writes[1].target = transform_texture /\ writes[2].target = settings_texture
        /\ calls = 0 =>
              /\ writes[1].data = <<Identity>>
              /\ writes[2].data = << << <<FALSE, FALSE, FALSE, FALSE>>,
                                        <<0, 0, 0, FALSE>>,
                                        <<-1, 10, 10, 10>> >> >>

\* C12 witness: create_buffers has returned for a scene with vertices in a face
\* bucket and in the point bucket and none in the line bucket
C12_Witness ==
    /\ last_call[1] = "create_buffers"
    /\ Len(buffer_ids["_frontfaces_data"]) = 5
    /\ Len(buffer_ids["_points_data"]) = 4
    /\ buffer_ids["_lines_data"] = <<>>
    /\ Len(positions["_lines_data"]) = 0

\* ------------------------------------------------------------ claims on draw
DrawReturned == last_call[1] = "draw"
Tracked(b) == buffer_ids[b] # <<>>

\* the places in the log of draw where call op was issued
Issued(op) == {i \in 1..Len(draw_log) : draw_log[i][2] = op}

\* C13: a draw in a state where no bucket tracks a buffer issues no shader
\* call and no GL call, whatever the rendermode and is_instance.
C13_DrawWithoutBuffersIsNoOp ==
    (DrawReturned /\ \A b \in Buckets : ~Tracked(b)) => (draw_log = <<>> /\ raised = "")

\* C13 witness: draw returned for the instance pass of a ghosted frame after
\* create_buffers ran on a scene without vertices
C13_Witness ==
    /\ DrawReturned
    /\ draw_args = <<"ghosted", TRUE>>
    /\ draw_log = <<>>
    /\ transform_texture # 0
    /\ \A b \in Buckets : ~Tracked(b)

\* the one call op that draws bucket b: on shader who, with the bucket's
\* elements buffer and the length of its index list
DrawsBucketOnce(op, who, b) ==
    /\ Cardinality(Issued(op)) = 1
    /\ \A i \in Issued(op) :
          draw_log[i] = <<who, op, "elements", Get(buffer_ids[b], "elements"),
                          Len(elements[b])>>

\* C14: a wireframe draw issues no triangle call, for both values of
\* is_instance, and still issues the point call and the line call for the point
\* and the line bucket that track buffers.
C14_WireframeDrawsNoTriangles ==
    (DrawReturned /\ draw_args[1] = "wireframe") =>
        /\ Issued("draw_triangles") = {}
        /\ IF Tracked("_points_data")
           THEN DrawsBucketOnce("draw_points", "shader", "_points_data")
           ELSE Issued("draw_points") = {}
        /\ IF Tracked("_lines_data")
           THEN DrawsBucketOnce("draw_lines", "line_shader", "_lines_data")
           ELSE Issued("draw_lines") = {}

\* C14 witness: a wireframe draw returned while both face buckets, the point
\* bucket and the line bucket track buffers
C14_Witness ==
    /\ DrawReturned
    /\ draw_args[1] = "wireframe"
    /\ \A b \in Buckets : Tracked(b) /\ Len(elements[b]) > 0
    /\ Issued("draw_points") # {} /\ Issued("draw_lines") # {}

\* the places in the log where GL call op was issued with argument name
IssuedGL(op, name) == {i \in Issued(op) : draw_log[i][1] = "GL" /\ draw_log[i][3] = name}

\* call i lies between an opening and a closing GL call
Between(i, opening, closing) ==
    /\ \E a \in opening : a < i /\ \A c \in closing : ~(a < c /\ c < i)
    /\ \E c \in closing : i < c

\* triangle calls of the opaque/instance pass: inside the polygon-offset bracket
FirstPass ==
    {i \in Issued("draw_triangles") :
        Between(i, IssuedGL("glEnable", "GL_POLYGON_OFFSET_FILL"),
                   IssuedGL("glDisable", "GL_POLYGON_OFFSET_FILL"))}

\* triangle calls of the transparent pass: inside the depth-mask bracket
TransparentPass ==
    {i \in Issued("draw_triangles") :
        Between(i, IssuedGL("glDepthMask", "GL_FALSE"), IssuedGL("glDepthMask", "GL_TRUE"))}

DrawCallPlaces ==
    Issued("draw_triangles") \cup Issued("draw_points") \cup Issued("draw_lines")

\* 1: opaque/instance pass, 2: points, 3: lines, 4: transparent pass
PassOf(i) ==
    IF i \in Issued("draw_points") THEN 2
    ELSE IF i \in Issued("draw_lines") THEN 3
    ELSE IF i \in TransparentPass THEN 4
    ELSE 1

\* the value of uniform name that shader who holds when call i is issued
UniformAt(i, who, name) ==
    LET set == {j \in 1..(i - 1) : draw_log[j] = <<who, "uniform1i", name, draw_log[j][4], 0>>}
    IN  IF set = {} THEN -1
        ELSE draw_log[CHOOSE j \in set : \A k \in set : k <= j][4]

\* C15: within one draw every triangle call belongs to exactly one of the two
\* face passes, and the calls come in the order opaque/instance-pass triangles,
\* point call (main shader, element_type 0), line call (line shader,
\* element_type 1, is_lighted false), transparent-pass triangles.
C15_PassOrder ==
    DrawReturned =>
        /\ Issued("draw_triangles") = FirstPass \cup TransparentPass
        /\ FirstPass \cap TransparentPass = {}
        /\ \A i, j \in DrawCallPlaces : i < j => PassOf(i) <= PassOf(j)
        /\ \A i \in Issued("draw_points") :
              draw_log[i][1] = "shader" /\ UniformAt(i, "shader", "element_type") = 0
        /\ \A i \in Issued("draw_lines") :
              /\ draw_log[i][1] = "line_shader"
              /\ UniformAt(i, "line_shader", "element_type") = 1
              /\ UniformAt(i, "line_shader", "is_lighted") = 0

\* C15 witness: a shaded draw returned that issued triangle calls in both face
\* passes, the point call and the line call
C15_Witness ==
    /\ DrawReturned
    /\ draw_args = <<"shaded", FALSE>>
    /\ FirstPass # {} /\ TransparentPass # {}
    /\ Issued("draw_points") # {} /\ Issued("draw_lines") # {}

\* the triangle calls that draw the opaque index list of face bucket b
OpaqueListCalls(b) ==
    {i \in Issued("draw_triangles") :
        draw_log[i] = <<"shader", "draw_triangles", "elements",
                        Get(buffer_ids[b], "elements"), Len(elements[b])>>}

\* the triangle calls that draw the transparent index list of face bucket b
TransparentListCalls(b) ==
    {i \in Issued("draw_triangles") :
        draw_log[i] = <<"shader", "draw_triangles", "elements_transparent",
                        Get(buffer_ids[b], "elements_transparent"),
                        Len(elements[TransparentKey(b)])>>}

OnceIn(calls_of_list, pass) == Cardinality(calls_of_list) = 1 /\ calls_of_list \subseteq pass

\* C16: in a draw that is not wireframe, each face bucket that tracks buffers
\* has its opaque and its transparent index list drawn exactly once each: both
\* in the first pass when is_instance (and there is no transparent pass); both in
\* the transparent pass, the transparent list first, when ghosted and not
\* is_instance (and the first pass draws nothing); otherwise the opaque list in
\* the first pass and the transparent list in the transparent pass. No other
\* triangle call is issued.
C16_ListSelection ==
    (DrawReturned /\ draw_args[1] # "wireframe") =>
        LET is_instance == draw_args[2]
            is_ghosted == draw_args[1] = "ghosted"
            tracked == {b \in FaceBuckets : Tracked(b)}
        IN  /\ Cardinality(Issued("draw_triangles")) = 2 * Cardinality(tracked)
            /\ is_instance => TransparentPass = {}
            /\ (is_ghosted /\ ~is_instance) => FirstPass = {}
            /\ \A b \in tracked :
                  IF is_instance
                  THEN /\ OnceIn(OpaqueListCalls(b), FirstPass)
                       /\ OnceIn(TransparentListCalls(b), FirstPass)
                  ELSE IF is_ghosted
                  THEN /\ OnceIn(OpaqueListCalls(b), TransparentPass)
                       /\ OnceIn(TransparentListCalls(b), TransparentPass)
                       /\ \A i \in TransparentListCalls(b), j \in OpaqueListCalls(b) : i < j
                  ELSE /\ OnceIn(OpaqueListCalls(b), FirstPass)
                       /\ OnceIn(TransparentListCalls(b), TransparentPass)

\* C16 witness: a ghosted draw, not for the instance buffer, returned while both
\* face buckets track buffers and hold indices in both of their lists
C16_Witness ==
    /\ DrawReturned
    /\ draw_args = <<"ghosted", FALSE>>
    /\ \A b \in FaceBuckets :
          Tracked(b) /\ elements[b] # <<>> /\ elements[TransparentKey(b)] # <<>>
    /\ Cardinality(TransparentPass) = 4

\* GL state when draw is entered: the renderer enables face culling at start-up
\* (render.py line 156) and only lines 217-245 ever change culling or the depth
\* mask, which GL starts enabled.
EntryCullFace == TRUE
EntryDepthWrite == TRUE

\* the last of the calls in set before call i (0: none)
LastBefore(i, set) ==
    LET before == {j \in set : j < i}
    IN  IF before = {} THEN 0 ELSE CHOOSE j \in before : \A k \in before : k <= j

\* depth-write is enabled when call i is issued (i = Len + 1: when draw returns)
DepthWriteAt(i) ==
    LET j == LastBefore(i, Issued("glDepthMask"))
    IN  IF j = 0 THEN EntryDepthWrite ELSE draw_log[j][3] = "GL_TRUE"

\* face culling is enabled when call i is issued
CullFaceAt(i) ==
    LET j == LastBefore(i, IssuedGL("glEnable", "GL_CULL_FACE")
                           \cup IssuedGL("glDisable", "GL_CULL_FACE"))
    IN  IF j = 0 THEN EntryCullFace ELSE draw_log[j][2] = "glEnable"

\* triangle calls issued after the line shader was released: the transparent pass
TrianglesAfterLines ==
    {i \in Issued("draw_triangles") :
        \E r \in Issued("release") : draw_log[r][1] = "line_shader" /\ r < i}

\* C17: during draw the triangle calls of the transparent pass are issued with
\* depth-write disabled and every other draw call with depth-write enabled, the
\* line call is issued with face culling disabled, and when draw returns
\* depth-write and face culling are both enabled.
C17_DepthWriteAndCulling ==
    DrawReturned =>
        /\ \A i \in DrawCallPlaces : DepthWriteAt(i) <=> i \notin TrianglesAfterLines
        /\ \A i \in Issued("draw_lines") : ~CullFaceAt(i)
        /\ DepthWriteAt(Len(draw_log) + 1)
        /\ CullFaceAt(Len(draw_log) + 1)

\* C17 witness: a lighted draw returned that issued the line call and triangle
\* calls before and after it
C17_Witness ==
    /\ DrawReturned
    /\ draw_args = <<"lighted", FALSE>>
    /\ Issued("draw_lines") # {}
    /\ TrianglesAfterLines # {}
    /\ Issued("draw_triangles") # TrianglesAfterLines

\* ------------------------------------------- claims on the transparency rule
\* the supplied in-range indices of face bucket b whose vertex alpha or whose
\* object's opacity is below 1.0, and the others
SeeThrough(b) == SelectSeq(ValidEntries(b), LAMBDA s : s.alpha < 10 \/ s.opacity < 10)
Solid(b) == SelectSeq(ValidEntries(b), LAMBDA s : ~(s.alpha < 10 \/ s.opacity < 10))

\* C18: the transparent list of a face bucket holds, in the order supplied,
\* exactly the in-range indices whose vertex colour has alpha < 1 or whose object
\* had opacity < 1 during add_object, and the opaque list holds the other
\* in-range indices.
C18_TransparentIffAlphaOrOpacity ==
    \A b \in FaceBuckets :
        /\ elements[TransparentKey(b)] = OffsetIndices(SeeThrough(b))
        /\ elements[b] = OffsetIndices(Solid(b))

\* C18 witness: a face bucket got an index of an opaque vertex of an opaque
\* object, one of a translucent vertex of an opaque object, and one of an opaque
\* vertex of an object with opacity 0.5
C18_Witness ==
    /\ AddReturned
    /\ \E b \in FaceBuckets :
          \E i, j, k \in 1..Len(supplied[b]) :
             /\ supplied[b][i].valid /\ supplied[b][j].valid /\ supplied[b][k].valid
             /\ supplied[b][i].alpha = 10 /\ supplied[b][i].opacity = 10
             /\ supplied[b][j].alpha = 5 /\ supplied[b][j].opacity = 10
             /\ supplied[b][k].alpha = 10 /\ supplied[b][k].opacity = 5

\* ------------------------------------------------- claims on the parent index
\* the parent_index field of the settings record at slot index
ParentField(table, index) == table[index + 1][3][1]

\* the objects whose settings record is in the table
WithRecord == {o \in TreeObjs : HasKey(objects, o) /\ Get(objects, o) < Len(settings)}

\* object o, tracked, has a parent that is not in the slot map
BeforeParent(o) == ParentOf(o) \in TreeObjs /\ ~HasKey(objects, ParentOf(o))

\* the step is a call that refreshes the record of o, or clear()
Refreshes(o) ==
    \/ last_call' = <<"update_object_settings", o>>
    \/ last_call'[1] \in {"update_settings", "clear"}

\* C19: the record appended by add_object holds the slot of the parent when the
\* parent was in the slot map before the call and -1 otherwise; and the record
\* of an object added before its parent keeps parent_index -1 through every
\* call other than update_object_settings for that object (update_settings
\* makes that call for every object; clear empties the table).
C19_ParentIndex ==
    [][ /\ \A o \in TreeObjs :
              last_call' = <<"add_object", o>> /\ raised' = ""
              => /\ Len(settings') = Len(settings) + 1
                 /\ ParentField(settings', Len(settings)) =
                        IF HasKey(objects, ParentOf(o))
                        THEN Get(objects, ParentOf(o)) ELSE -1
        /\ \A o \in WithRecord :
              /\ BeforeParent(o)
              /\ ParentField(settings, Get(objects, o)) = -1
              /\ ~Refreshes(o)
              => ParentField(settings', Get(objects, o)) = -1 ]_vars

\* ------------------------------------------- claims on mismatched colour lists
\* C20: add_object never raises: whatever the lengths of the colour list and
\* the position list of a bucket (an empty colour list with positions
\* included), the call returns and the object's transform and settings records
\* are in the tables.
C20_AddObjectNeverRaises ==
    \A o \in TreeObjs :
        last_call = <<"add_object", o>>
        => /\ raised = ""
           /\ HasKey(objects, o)
           /\ Get(objects, o) < Len(transforms)
           /\ Get(objects, o) < Len(settings)

\* ------------------------------------------------ claims on colour repair
\* the colours the repair rule gives n positions: the first n of the m input
\* colours, or the m input colours and n - m copies of the last one
Repaired(n, cols) ==
    IF Len(cols) >= n THEN SubSeq(cols, 1, n)
    ELSE cols \o [i \in 1..(n - Len(cols)) |-> cols[Len(cols)]]

\* the last k entries of a sequence
LastEntries(seq, k) == SubSeq(seq, Len(seq) - k + 1, Len(seq))

\* C21: after add_object for data with n positions and m colours in a bucket,
\* the call has returned, the last n colours of the bucket are the repaired
\* colours (truncated when m > n, padded with the last input colour when m < n,
\* as supplied when m = n), and a warning was printed for the bucket exactly
\* when m # n.
C21_RepairedColorsStored ==
    (last_call[1] = "add_object" /\ added # <<>>) =>
        /\ raised = ""
        /\ \A b \in Buckets :
              LET n == Len(LastData[b].positions)
                  stored == ColorFloats * n
              IN  /\ LastData[b].has =>
                        /\ Len(colors[b]) >= stored
                        /\ LastEntries(colors[b], stored)
                             = Flatten(Repaired(n, LastData[b].colors))
                  /\ (\E i \in 1..Len(printed) : printed[i][1] = b)
                        <=> (LastData[b].has /\ Len(LastData[b].colors) # n)

\* ------------------------------------------- claims on the per-object updates
UpdateCalls == {"update_object_transform", "update_object_settings", "update_object_data"}

\* C22: update_object_transform, update_object_settings and update_object_data
\* for an object that is not in the slot map raise nothing, issue no upload and
\* leave the bucket arrays, both tables, the settings cache, the slot map and
\* the GL names unchanged.
C22_UpdateOfAbsentObjectIsNoOp ==
    [][\A o \in Objs, call \in UpdateCalls :
          (last_call' = <<call, o>> /\ ~HasKey(objects, o))
          => /\ raised' = ""
             /\ writes' = <<>>
             /\ UNCHANGED <<bucketVars, tableVars, gpuVars>>]_vars

\* C22 witness: buffers exist for a scene that tracks object 1, and
\* update_object_data has just been called for object 2, which was never added
C22_Witness ==
    /\ last_call = <<"update_object_data", 2>>
    /\ HasKey(objects, 1) /\ ~HasKey(objects, 2)
    /\ settings_texture # 0
    /\ \E b \in Buckets : buffer_ids[b] # EmptyDict

\* ------------------------------------------------ claims on add_object and the GPU
\* C23: add_object, returning or raising, issues no upload and no glDelete* and
\* leaves the tracked GL names (buffers of every bucket, both textures) and the
\* GL objects as they were.
C23_AddObjectLeavesGpuAlone ==
    [][last_call'[1] = "add_object"
       => /\ writes' = <<>>
          /\ releases' = <<>>
          /\ UNCHANGED gpuVars]_vars

\* C23 witness: add_object returned while textures and buffers exist
C23_Witness ==
    /\ AddReturned
    /\ transform_texture # 0 /\ settings_texture # 0
    /\ \E b \in Buckets : buffer_ids[b] # EmptyDict

\* ------------------------------------------------ claims on the draw brackets
\* the places of the calls op on receiver who in the draw log
CallsOf(who, op) == {i \in 1..Len(draw_log) : draw_log[i][1] = who /\ draw_log[i][2] = op}

Shaders == {"shader", "line_shader"}

\* the bind() at place i is released by its shader before any shader is bound
Released(i) ==
    \E j \in CallsOf(draw_log[i][1], "release") :
        /\ j > i
        /\ \A s \in Shaders : \A k \in CallsOf(s, "bind") : ~(i < k /\ k < j)

\* the attribute enabled at place i is disabled later on the same shader
Disabled(i) ==
    \E j \in CallsOf(draw_log[i][1], "disable_attribute") :
        j > i /\ draw_log[j][3] = draw_log[i][3]

\* C29: when draw returns, every bind() it issued was followed by a release()
\* of that shader before another bind(), and every attribute it enabled was
\* disabled afterwards, for every rendermode and both values of is_instance.
C29_PassesBracketed ==
    DrawReturned =>
        \A s \in Shaders :
            /\ \A i \in CallsOf(s, "bind") : Released(i)
            /\ \A i \in CallsOf(s, "enable_attribute") : Disabled(i)

\* ------------------------------------------- claims on the records refreshed
\* every entry of the table but the one of slot is as it was
OtherRowsKept(old, new, slot) ==
    /\ Len(new) = Len(old)
    /\ \A i \in 1..Len(old) : i # slot + 1 => new[i] = old[i]

\* every upload of the step writes floats 4-byte values from byte first of target
UploadsAt(target, first, floats) ==
    \A k \in 1..Len(writes') :
        /\ writes'[k].target = target
        /\ writes'[k].offset = first
        /\ Len(writes'[k].data) = floats

\* every cache entry but the one of object o is as it was
OtherCacheEntriesKept(o) ==
    \A p \in Objs \ {o} :
        /\ HasKey(object_settings_cache', p) <=> HasKey(object_settings_cache, p)
        /\ HasKey(object_settings_cache, p)
           => Get(object_settings_cache', p) = Get(object_settings_cache, p)

\* C24: update_object_transform for a tracked object changes no row of the
\* transform table but the one of its slot, uploads nothing but the 64 bytes
\* from 64 * slot of the transform texture, and leaves the settings table and
\* cache alone; update_object_settings changes no row of the settings table but
\* the one of its slot and no cache entry but the object's, uploads nothing but
\* the 48 bytes from 48 * slot of the settings texture, and leaves the transform
\* table alone; neither changes a table length, a bucket array, the slot map or
\* a GL name.
C24_UpdatesTouchOneSlot ==
    [][\A o \in Objs :
          HasKey(objects, o) =>
             /\ last_call' = <<"update_object_transform", o>>
                => /\ OtherRowsKept(transforms, transforms', Get(objects, o))
                   /\ UploadsAt(transform_texture, 64 * Get(objects, o), 16)
                   /\ 4 * 16 = 64
                   /\ UNCHANGED <<bucketVars, gpuVars, objects, settings,
                                  object_settings_cache>>
             /\ last_call' = <<"update_object_settings", o>>
                => /\ OtherRowsKept(settings, settings', Get(objects, o))
                   /\ OtherCacheEntriesKept(o)
                   /\ UploadsAt(settings_texture, 48 * Get(objects, o), 3)
                   /\ \A k \in 1..Len(writes') : 4 * Len(Flatten(writes'[k].data)) = 48
                   /\ UNCHANGED <<bucketVars, gpuVars, objects, transforms>>]_vars

\* C24 witness: the second of two objects, in slot 1, was moved and made
\* translucent; its transform was refreshed, and update_object_settings has
\* just uploaded its record at byte 48
C24_Witness ==
    /\ last_call = <<"update_object_settings", 2>>
    /\ raised = ""
    /\ HasKey(objects, 2) /\ Get(objects, 2) = 1
    /\ Len(writes) = 1 /\ writes[1].offset = 48
    /\ Len(settings) = 2 /\ settings[2][3][2] = 5 /\ settings[1][3][2] = 10
    /\ transforms = <<Identity, Translated>>

\* ------------------------------------------------ claims on the GPU storage
\* C25: every partial upload of update_object_transform and
\* update_object_settings lies inside the room create_buffers allocated for its
\* texture: 64 * slot + 64 <= size of the transform texture and
\* 48 * slot + 48 <= size of the settings texture, whatever was called since
\* create_buffers.
C25_PartialWritesInsideStorage ==
    [][last_call'[1] \in {"update_object_transform", "update_object_settings"}
       => \A k \in 1..Len(writes') : Fits(storage, writes'[k])]_vars

\* ------------------------------------------- claims on transparency after updates
\* the colour floats vertex e of bucket b is drawn with: those on the GPU where
\* the bucket's colour buffer holds the vertex, those of the CPU array otherwise
CurrentColors(b) ==
    IF buffer_ids[b] # EmptyDict
    THEN storage[Get(buffer_ids[b], "colors")].rows
    ELSE colors[b]

CurrentAlpha(b, e) ==
    IF ColorFloats * (e + 1) <= Len(CurrentColors(b))
    THEN CurrentColors(b)[ColorFloats * (e + 1)]
    ELSE colors[b][ColorFloats * (e + 1)]

\* a tracked object whose slot vertex e of bucket b carries has opacity below 1.0
OwnerTranslucent(b, e) ==
    \E o \in Objs :
        /\ HasKey(objects, o)
        /\ Get(objects, o) = object_indices[b][e + 1]
        /\ opacity[o] < 10

\* C26: once buffers exist, after update_object_settings or update_object_data
\* every index of a face bucket's transparent list refers to a vertex whose
\* current alpha or whose object's current opacity is below 1, and no index of
\* its opaque list does.
C26_ListsFollowCurrentStyle ==
    (settings_texture # 0 /\ raised = ""
       /\ last_call[1] \in {"update_object_settings", "update_object_data"})
    => \A b \in FaceBuckets :
          /\ \A i \in 1..Len(elements[TransparentKey(b)]) :
                LET e == elements[TransparentKey(b)][i]
                IN  CurrentAlpha(b, e) < 10 \/ OwnerTranslucent(b, e)
          /\ \A i \in 1..Len(elements[b]) :
                LET e == elements[b][i]
                IN  ~(CurrentAlpha(b, e) < 10 \/ OwnerTranslucent(b, e))

\* ------------------------------------------------ claims on the draw counts
DrawOps == {"draw_points", "draw_lines", "draw_triangles"}

\* C27: the element count n of every points, lines and triangles call of draw
\* equals the number of indices uploaded to the index buffer the call names.
C27_DrawCountsMatchUploads ==
    DrawReturned =>
        \A i \in 1..Len(draw_log) :
            draw_log[i][2] \in DrawOps
            => draw_log[i][5] = Len(storage[draw_log[i][4]].rows)

\* ------------------------------------------------ claims on redundant uploads
\* the row of its target that upload w overwrites, as it is before the upload
RowBefore(w) == storage[w.target].rows[w.offset \div storage[w.target].row_bytes + 1]

\* C28: update_object_settings uploads a record only when it differs from the
\* record the settings texture holds for that slot, put there by
\* create_buffers or by an earlier update.
C28_UploadsOnlyChangedRecords ==
    [][last_call'[1] = "update_object_settings"
       => \A k \in 1..Len(writes') :
             Fits(storage, writes'[k]) => writes'[k].data # RowBefore(writes'[k])]_vars

\* ------------------------------------------------ claims on update_object_data
\* add_object for data d got as far as appending the vertices of bucket b
Ingested(d, b) ==
    /\ d[b].has
    /\ \A j \in 1..BucketIndex(b) :
          d[BucketOrder[j]].has
          => ~RepairRaises(d[BucketOrder[j]].positions, d[BucketOrder[j]].colors)

\* history: the vertices of bucket b that the k-th add_object call appended
VertexCount(k, b) == IF Ingested(added[k][2], b) THEN Len(added[k][2][b].positions) ELSE 0

RECURSIVE VerticesBefore(_, _)
VerticesBefore(k, b) ==
    IF k = 1 THEN 0 ELSE VerticesBefore(k - 1, b) + VertexCount(k - 1, b)

\* history: vertex v of bucket b was appended by the add_object call for object o
Owns(o, b, v) ==
    \E k \in 1..Len(added) :
        /\ added[k][1] = o
        /\ VerticesBefore(k, b) <= v /\ v < VerticesBefore(k, b) + VertexCount(k, b)

OwnCount(o, b) == Cardinality({v \in 0..(Len(object_indices[b]) - 1) : Owns(o, b, v)})

\* the step uploads floats_per vertex-wise floats to buffer name of bucket b for
\* object o: as many as the object's vertices, from its first vertex on, and no
\* float of another object's vertex changes on the GPU
RefreshesOwnVertices(o, b, name, floats_per) ==
    LET h == Get(buffer_ids[b], name)
        slot == Get(objects, o)
        s == CHOOSE v \in 0..Len(object_indices[b]) :
                 /\ v < Len(object_indices[b]) => object_indices[b][v + 1] = slot
                 /\ \A u \in 0..(v - 1) : object_indices[b][u + 1] # slot
    IN  /\ \A k \in 1..Len(writes') :
              writes'[k].target = h
              => /\ writes'[k].offset = 4 * floats_per * s
                 /\ Len(writes'[k].data) = floats_per * OwnCount(o, b)
        /\ Len(storage'[h].rows) = Len(storage[h].rows)
        /\ \A i \in 1..Len(storage[h].rows) :
              ~Owns(o, b, (i - 1) \div floats_per)
              => storage'[h].rows[i] = storage[h].rows[i]

VertexBufferNames ==
    {Get(buffer_ids[b], name) :
        b \in {c \in Buckets : buffer_ids[c] # EmptyDict}, name \in {"positions", "colors"}}

\* C30: update_object_data for a tracked object, with as many vertices per
\* bucket as add_object got, uploads to each bucket's position and colour
\* buffer exactly the object's vertices (12 and 16 bytes each) from the first
\* vertex that carries its slot; the vertex data of every other object, every
\* other buffer, both textures, both tables and the CPU arrays stay as they are.
C30_DataRefreshTouchesOwnVertices ==
    [][\A o \in Objs :
          (/\ last_call' = <<"update_object_data", o>>
           /\ HasKey(objects, o)
           /\ raised' = ""
           /\ \A k \in 1..Len(writes'), b \in Buckets :
                 buffer_ids[b] # EmptyDict
                 => /\ writes'[k].target = Get(buffer_ids[b], "positions")
                       => Len(writes'[k].data) = PositionFloats * OwnCount(o, b)
                    /\ writes'[k].target = Get(buffer_ids[b], "colors")
                       => Len(writes'[k].data) = ColorFloats * OwnCount(o, b))
          => /\ \A b \in Buckets :
                   buffer_ids[b] # EmptyDict
                   => /\ RefreshesOwnVertices(o, b, "positions", PositionFloats)
                      /\ RefreshesOwnVertices(o, b, "colors", ColorFloats)
             /\ \A h \in 1..Len(storage) :
                   h \notin VertexBufferNames => storage'[h] = storage[h]
             /\ UNCHANGED <<bucketVars, tableVars, gpuVars>>]_vars

\* ------------------------------------------- claims on whole primitives
\* the triangles handed to face bucket b: the consecutive index triples of its
\* producers' element arrays, offset by the vertices the bucket held before
InputTriangles(b) ==
    {OffsetIndices(SubSeq(supplied[b], 3 * j - 2, 3 * j)) : j \in 1..(Len(supplied[b]) \div 3)}

\* the consecutive triples that a draw_triangles call reads from an index list
Triples(list) == {SubSeq(list, 3 * t - 2, 3 * t) : t \in 1..(Len(list) \div 3)}

\* C33: after any sequence of add_object calls the opaque and the transparent
\* index list of each face bucket consist of whole triangles: the length of each
\* list is a multiple of 3 and every consecutive triple of a list is one input
\* triangle of one object, also when the vertices of a triangle differ in alpha
\* or an index is skipped as dangling.
C33_FaceListsHoldWholeTriangles ==
    \A b \in FaceBuckets : \A k \in {b, TransparentKey(b)} :
        /\ Len(elements[k]) % 3 = 0
        /\ Triples(elements[k]) \subseteq InputTriangles(b)

\* the element lists of bucket b
ElementKeysOf(b) == IF IsFaceBucket(b) THEN {b, TransparentKey(b)} ELSE {b}

\* C34: after any sequence of add_object calls and for any producer input,
\* every index stored in an element list of a bucket is less than the bucket's
\* vertex count and refers to a vertex of the object that contributed it (a
\* vertex appended by the same call, which carries that object's slot).
C34_StoredIndicesReferToOwnVertices ==
    \A b \in Buckets :
        /\ \A k \in ElementKeysOf(b) : \A i \in 1..Len(elements[k]) :
              elements[k][i] < Len(object_indices[b])
        /\ IF IsFaceBucket(b)
           THEN \A k \in ElementKeysOf(b) : \A i \in 1..Len(elements[k]) :
                   elements[k][i] \in SeqValues(OffsetIndices(ValidEntries(b)))
           ELSE /\ elements[b] = OffsetIndices(supplied[b])
                /\ \A j \in 1..Len(supplied[b]) : supplied[b][j].valid

\* ------------------------------------------------ claims on failed calls
\* C35: add_object is all-or-nothing: when it fails while ingesting one of the
\* object's buckets, the slot map, every bucket array, the transform table and
\* the settings table are as they were before the call.
C35_FailedAddObjectChangesNothing ==
    [][(last_call'[1] = "add_object" /\ raised' # "")
       => UNCHANGED <<bucketVars, tableVars>>]_vars

\* ------------------------------------------ claims on the update handlers
UpdateHandlers == {"update_object_transform", "update_object_settings", "update_object_data"}

\* C36: no per-object update attempts a GPU write to a resource that does not
\* exist: an update of a tracked object completes without the AttributeError of
\* a missing texture (also between add_object and create_buffers), and every
\* upload of an update goes to a GL name that has been created and not released.
C36_UpdatesWriteToExistingResources ==
    last_call[1] \in UpdateHandlers
    => /\ raised # "AttributeError"
       /\ \A k \in 1..Len(writes) :
             /\ writes[k].target \in 1..Len(gl_objects)
             /\ gl_objects[writes[k].target].deletes = 0

\* bucket b holds a vertex whose object_index is the slot
SlotOwnsVertex(b, slot) == \E i \in 1..Len(object_indices[b]) : object_indices[b][i] = slot

\* C37: update_object_data issues no GPU write into a bucket in which the
\* object's slot owns no vertex (the object had no data for the bucket when it
\* was added but has some when updated, and another object's data created the
\* bucket's buffers), so it never overwrites the start of another object's data.
C37_NoRefreshWithoutOwnVertices ==
    [][\A o \in Objs :
         (last_call' = <<"update_object_data", o>> /\ HasKey(objects, o))
         => \A b \in Buckets :
               (buffer_ids[b] # EmptyDict /\ ~SlotOwnsVertex(b, Get(objects, o)))
               => \A k \in 1..Len(writes') :
                     writes'[k].target \notin {Get(buffer_ids[b], "positions"),
                                               Get(buffer_ids[b], "colors")}]_vars

\* ------------------------------------------------ claims on slot ranges
\* the vertices of a bucket that carry the slot
VerticesOf(indices, slot) == {v \in 0..(Len(indices) - 1) : indices[v + 1] = slot}

\* C38: in every bucket and every reachable state object_indices is
\* non-decreasing, so the vertices that carry one slot form a single contiguous
\* range, which starts at the first vertex matching the slot (the one the scan
\* of update_object_data finds).
C38_ObjectIndicesNonDecreasing ==
    \A b \in Buckets :
        LET indices == object_indices[b] IN
        /\ \A i, j \in 1..Len(indices) : i <= j => indices[i] <= indices[j]
        /\ \A slot \in SeqValues(indices) :
              LET first == FirstVertex(indices, slot) IN
              VerticesOf(indices, slot)
                  = first..(first + Cardinality(VerticesOf(indices, slot)) - 1)

\* C38 witness: a bucket that holds the vertices of two slots, the second slot's
\* range starting after the first one's
C38_Witness ==
    \E b \in Buckets :
        /\ Cardinality(SeqValues(object_indices[b])) > 1
        /\ \E slot \in SeqValues(object_indices[b]) : FirstVertex(object_indices[b], slot) > 1

\* ------------------------------------------ claims on the CPU-side mirror
\* the rows GL name h holds on the GPU
GpuRows(h) == storage[h].rows

\* C39: after every update operation the CPU-side arrays mirror the GPU
\* contents: the combined positions and colors arrays of each bucket with
\* buffers equal the contents of its GPU vertex buffers, and transforms and
\* settings equal the contents of the transform and settings textures.
C39_CpuArraysMirrorGpu ==
    (last_call[1] \in UpdateHandlers /\ raised = "" /\ transform_texture # 0)
    => /\ transforms # <<>> => GpuRows(transform_texture) = transforms
       /\ settings # <<>> => GpuRows(settings_texture) = settings
       /\ \A b \in Buckets :
             buffer_ids[b] # EmptyDict
             => /\ GpuRows(Get(buffer_ids[b], "positions")) = positions[b]
                /\ GpuRows(Get(buffer_ids[b], "colors")) = colors[b]

\* ------------------------------------------------------ Viewer.on and Timer
managerVars == <<bucketVars, tableVars, gpuVars, objVars, callVars, histVars>>

\* the truth value Python gives an int or None argument
Truthy(x) == x # NoneArg /\ x # 0

Intervals == {0, 100}
Timeouts == {NoneArg, 100}
FrameArgs == {NoneArg} \cup 0..MaxFrames

\* viewer.py lines 249-250
OnRaises(interval, timeout) ==
    (~Truthy(interval) /\ ~Truthy(timeout)) \/ (Truthy(interval) /\ Truthy(timeout))

\* viewer.py lines 212-267: viewer.on(interval, timeout, frames) raises ValueError
\* or returns the decorator outer. One callback is registered per viewer.
On(interval, timeout, frames) ==
    /\ ~timer.made
    /\ ~(on_call.called /\ ~on_call.raised)
    /\ on_call' = [called |-> TRUE, interval |-> interval, timeout |-> timeout,
                   frames |-> frames, raised |-> OnRaises(interval, timeout)]
    /\ UNCHANGED <<managerVars, renderVars, sceneVars, frame_count, timer, trace>>

\* viewer.py lines 56-61: Timer(interval, callback, singleshot) starts its QTimer
NewTimer(singleshot) == [made |-> TRUE, singleshot |-> singleshot, active |-> TRUE]

\* viewer.py lines 252-265: outer(func), the decorator applied to the callback
Outer ==
    /\ on_call.called /\ ~on_call.raised
    /\ ~timer.made
    /\ timer' = IF Truthy(on_call.timeout) THEN NewTimer(TRUE) ELSE NewTimer(FALSE)
    /\ frame_count' = 0
    /\ UNCHANGED <<managerVars, renderVars, sceneVars, on_call, trace>>

\* viewer.py line 257: the test that stops the timer
Stops(count, frames) == frames # NoneArg /\ count >= frames

\* viewer.py lines 253-258: the QTimer fires and calls render(); a single-shot
\* timer is inactive once it has fired
Tick ==
    /\ timer.made /\ timer.active
    /\ frame_count < MaxTicks
    /\ frame_count' = frame_count + 1
    /\ trace' = trace \o << <<"func", frame_count>>, <<"render.update", 0>> >>
                      \o (IF Stops(frame_count + 1, on_call.frames)
                          THEN << <<"timer.stop", 0>> >> ELSE <<>>)
    /\ timer' = [timer EXCEPT
                   !.active = ~timer.singleshot /\ ~Stops(frame_count + 1, on_call.frames)]
    /\ UNCHANGED <<managerVars, renderVars, sceneVars, on_call>>

\* ------------------------------------------------------- Render.rendermode
\* render.py lines 82-94: render.rendermode = rendermode. self._shader_model is
\* None from line 56 on, so the block of lines 90-94 does not run.
SetRendermode(rendermode) ==
    /\ render_rendermode' = rendermode
    /\ config' = [config EXCEPT !.rendermode = rendermode]
    /\ render_opacity' = IF rendermode = "ghosted" THEN config.ghostopacity ELSE 10
    /\ UNCHANGED <<managerVars, timerVars, sceneVars>>

\* A viewer with a timer callback, whose render mode is switched at any time
ViewerNext ==
    \/ \E interval \in Intervals, timeout \in Timeouts, frames \in FrameArgs :
          On(interval, timeout, frames)
    \/ Outer
    \/ Tick
    \/ \E rendermode \in ViewerRenderModes : SetRendermode(rendermode)

SpecViewer == InitViewer /\ [][ViewerNext]_vars

\* ---------------------------------------------------- claims on Viewer.on
\* the frame arguments the callback was called with, in order
Invocations == SelectSeq(trace, LAMBDA e : e[1] = "func")

\* C32: Viewer.on raises ValueError unless exactly one of interval and timeout
\* is given; with frames = N in interval mode the callback is invoked exactly N
\* times, with frame arguments 0, 1, ..., N - 1 in that order, each followed by a
\* render update, and the timer is stopped after the N-th invocation; without
\* frames the callback is invoked on every tick and the timer is not stopped.
C32_OnInvokesCallbackFramesTimes ==
    /\ on_call.called
       => (on_call.raised <=> Truthy(on_call.interval) = Truthy(on_call.timeout))
    /\ \A i \in 1..Len(Invocations) : Invocations[i] = <<"func", i - 1>>
    /\ \A i \in 1..Len(trace) :
          trace[i][1] = "func" => i < Len(trace) /\ trace[i + 1][1] = "render.update"
    /\ (timer.made /\ ~timer.singleshot)
       => IF on_call.frames = NoneArg
          THEN timer.active /\ Len(Invocations) = frame_count
          ELSE /\ Len(Invocations) <= on_call.frames
               /\ ~timer.active => Len(Invocations) = on_call.frames
               /\ (Len(Invocations) = on_call.frames /\ on_call.frames > 0)
                  => (~timer.active /\ trace[Len(trace)][1] = "timer.stop")

\* ------------------------------------------------------ claims on Render
\* C40: in every reachable state of Render, from construction on and after any
\* sequence of rendermode assignments, the view opacity is config.ghostopacity
\* when rendermode is "ghosted" and 1.0 otherwise, and config.rendermode is the
\* current rendermode.
C40_OpacityFollowsRendermode ==
    /\ render_opacity = IF render_rendermode = "ghosted" THEN config.ghostopacity ELSE 10
    /\ config.rendermode = render_rendermode

\* --------------------------------------------------------- ViewerScene
\* what the scene objects of a bounded run hold: a mesh, an object whose line
\* data come without colours, point clouds
DataOf(o) == IF o = 1 THEN Mesh ELSE IF o = 2 THEN NoLineColors ELSE Single("_points_data")

RECURSIVE AddCalls(_, _)
AddCalls(objs, i) ==
    IF i > Len(objs) THEN <<>> ELSE << <<"add_object", objs[i]>> >> \o AddCalls(objs, i + 1)

\* renderer.rebuild_buffers(): the full rebuild from the current object set,
\* clear(), add_object for every object of the scene, create_buffers()
RebuildCalls(objs) == << <<"clear", 0>> >> \o AddCalls(objs, 1) \o << <<"create_buffers", 0>> >>

\* scene.py line 181
AddRebuilds(is_running) == is_running

\* the test of line 224 left out
RemoveRebuildsAlways(is_running, rebuild_buffers) == TRUE

\* scene.py line 224
RemoveRebuilds(is_running, rebuild_buffers) == is_running /\ rebuild_buffers

Started(name, o, rebuild_buffers, calls_to_make) ==
    [name |-> name, obj |-> o, rebuild_buffers |-> rebuild_buffers,
     state |-> IF calls_to_make = <<>> THEN "returned" ELSE "running"]

Without(objs, o) == SelectSeq(objs, LAMBDA p : p # o)

\* viewer.show(): the viewer is running from now on
Show ==
    /\ ~running
    /\ handler.state # "running"
    /\ running' = TRUE
    /\ handler' = Started("show", 0, FALSE, <<>>)
    /\ UNCHANGED <<managerVars, renderVars, timerVars, scene, todo>>

\* scene.py lines 157-186: scene.add(item), up to the rebuild it asks for
SceneAddItem(o) ==
    /\ handler.state # "running"
    /\ o \notin SeqValues(scene)
    /\ running => Creates < MaxBuilds
    /\ scene' = Append(scene, o)
    /\ todo' = IF AddRebuilds(running) THEN RebuildCalls(scene') ELSE <<>>
    /\ handler' = Started("add", o, TRUE, todo')
    /\ UNCHANGED <<managerVars, renderVars, timerVars, running>>

\* scene.py lines 210-227: scene.remove(sceneobject, rebuild_buffers), up to the
\* rebuild it asks for
SceneRemoveItem(o, rebuild_buffers) ==
    /\ handler.state # "running"
    /\ o \in SeqValues(scene)
    /\ running => Creates < MaxBuilds
    /\ scene' = Without(scene, o)
    /\ todo' = IF RemoveRebuilds(running, rebuild_buffers) THEN RebuildCalls(scene') ELSE <<>>
    /\ handler' = Started("remove", o, rebuild_buffers, todo')
    /\ UNCHANGED <<managerVars, renderVars, timerVars, running>>

\* the next buffer manager call of the rebuild in progress; an exception of
\* add_object ends the scene call, which returns after create_buffers otherwise
ManagerCall ==
    /\ todo # <<>>
    /\ \/ Head(todo)[1] = "clear" /\ Clear
       \/ Head(todo)[1] = "add_object" /\ AddObject(Head(todo)[2], DataOf(Head(todo)[2]))
       \/ Head(todo)[1] = "create_buffers" /\ CreateBuffers
    /\ todo' = IF raised' # "" THEN <<>> ELSE Tail(todo)
    /\ handler' = [handler EXCEPT !.state = IF raised' # "" THEN "raised"
                                            ELSE IF Tail(todo) = <<>> THEN "returned"
                                            ELSE "running"]
    /\ UNCHANGED <<histVars, renderVars, timerVars, running, scene>>

\* A scene that is filled and emptied before and after the viewer is shown
SceneNext ==
    \/ Show
    \/ \E o \in Objs : SceneAddItem(o)
    \/ \E o \in Objs, rebuild_buffers \in BOOLEAN : SceneRemoveItem(o, rebuild_buffers)
    \/ ManagerCall

SpecScene == Init /\ [][SceneNext]_vars

\* ------------------------------------------------ claims on ViewerScene
\* the GL names in use
LiveNames == {h \in 1..Len(gl_objects) : gl_objects[h].deletes = 0}

RECURSIVE VerticesOfScene(_, _, _)
VerticesOfScene(objs, b, i) ==
    IF i > Len(objs) THEN 0
    ELSE (IF DataOf(objs[i])[b].has THEN Len(DataOf(objs[i])[b].positions) ELSE 0)
         + VerticesOfScene(objs, b, i + 1)

\* the buffers are those of a full rebuild from the current object set
Rebuilt ==
    /\ Keys(objects) = scene
    /\ Len(transforms) = Len(scene) /\ Len(settings) = Len(scene)
    /\ \A b \in Buckets :
          /\ Len(object_indices[b]) = VerticesOfScene(scene, b, 1)
          /\ buffer_ids[b] # EmptyDict <=> HasVertices(b)
    /\ LiveNames = {transform_texture, settings_texture}
                   \cup UNION {SeqValues(Values(buffer_ids[b])) : b \in Buckets}

SceneCallReturned ==
    handler.name \in {"add", "remove"} /\ handler.state = "returned"

====
